---- MODULE Spec2Model ----
(***************************************************************************)
(* goov: declarative record validation.                                    *)
(*                                                                         *)
(* The repository holds two implementations of package validator:          *)
(*   - the path-keyed Validator (src/unnamed/part_002): the registry maps  *)
(*     a field path to an ordered list of rules, Validate aggregates every *)
(*     failure into ValidationErrors;                                      *)
(*   - the tag-based Validator (src/unnamed/part_003): the registry maps a *)
(*     rule name to one rule, struct tags name the rules of a field,       *)
(*     Validate returns the first failure and ValidateAll a list.          *)
(* The variable impl says which of the two the program is built with.      *)
(***************************************************************************)
EXTENDS Integers, Sequences, FiniteSets, TLC

VARIABLES
    impl,     \* "path" (part_002) or "tag" (part_003)
    rules,    \* Validator.rules: the registry
    op,       \* the last operation called on the Validator
    data,     \* the argument of the last Validate / ValidateAll call
    result,   \* what that call returned (or that it panicked)
    nAdds     \* number of AddRule calls made so far

vars == <<impl, rules, op, data, result, nAdds>>

(***************************************************************************)
(* Bounds                                                                  *)
(***************************************************************************)
MaxRules == 2     \* AddRule calls per run
MaxItems == 2     \* length of the Items slice

(***************************************************************************)
(* reflect.Value: a value together with its kind                           *)
(***************************************************************************)
NilIface == [kind |-> "invalid"]
StrV(s) == [kind |-> "string", s |-> s]
IntV(n) == [kind |-> "int", n |-> n]
BoolV(b) == [kind |-> "bool", b |-> b]
NilPtr == [kind |-> "ptr", isNil |-> TRUE]
PtrTo(v) == [kind |-> "ptr", isNil |-> FALSE, elem |-> v]
StructV(fs) == [kind |-> "struct", fields |-> fs]
SliceV(ek, xs) == [kind |-> "slice", elemKind |-> ek, isNil |-> FALSE, items |-> xs]
NilSlice(ek) == [kind |-> "slice", elemKind |-> ek, isNil |-> TRUE, items |-> <<>>]
MapV(ek, m) == [kind |-> "map", elemKind |-> ek, at |-> m]
\* reflect.StructField with the value of the field; tag is the `validate`
\* tag as a sequence of tokens (names and the separators "," and "=")
Field(name, exported, tag, value) ==
    [name |-> name, exported |-> exported, tag |-> tag, value |-> value]

(***************************************************************************)
(* error values                                                            *)
(***************************************************************************)
NoError == [isNil |-> TRUE]
Errorf(msg) == [isNil |-> FALSE, msg |-> msg]

\* strconv / fmt "%d" (and "%v" of an integral float64)
Digit(d) == CASE d = 0 -> "0" [] d = 1 -> "1" [] d = 2 -> "2" [] d = 3 -> "3"
              [] d = 4 -> "4" [] d = 5 -> "5" [] d = 6 -> "6" [] d = 7 -> "7"
              [] d = 8 -> "8" [] d = 9 -> "9"
RECURSIVE Itoa(_)
Itoa(n) == IF n < 0 THEN "-" \o Itoa(0 - n)
           ELSE IF n < 10 THEN Digit(n)
           ELSE Itoa(n \div 10) \o Digit(n % 10)

(***************************************************************************)
(* Leaf rules (package rules)                                              *)
(***************************************************************************)
Required == [type |-> "Required"]
Range(min, max) == [type |-> "Range", Min |-> min, Max |-> max]

RequiredValidate(value) ==
    IF value = NilIface THEN Errorf("value is required")
    ELSE IF value.kind = "string" /\ value.s = "" THEN Errorf("value is required")
    ELSE IF value.kind = "slice" /\ Len(value.items) = 0 THEN Errorf("value is required")
    ELSE IF value.kind = "map" /\ DOMAIN value.at = {} THEN Errorf("value is required")
    ELSE IF value.kind = "ptr" /\ value.isNil THEN Errorf("value is required")
    ELSE NoError

RangeValidate(r, value) ==
    IF value.kind # "int" THEN Errorf("value must be numeric")
    ELSE IF value.n < r.Min
         THEN Errorf("value must be greater than or equal to " \o Itoa(r.Min))
    ELSE IF r.Max > 0 /\ value.n > r.Max
         THEN Errorf("value must be less than or equal to " \o Itoa(r.Max))
    ELSE NoError

(***************************************************************************)
(* Conditional rules (package rules).  A rule is held in a Rule interface  *)
(* either as a value (rules.If{...}) or as a pointer (&rules.If{...}); ptr *)
(* says which.  SetParent has a pointer receiver, so only a rule held as a *)
(* pointer asserts to interface{ SetParent(interface{}) }.                 *)
(***************************************************************************)
\* a nil Rule: Then or Else left unset
NilRule == [type |-> "nil"]
If(field, then, else, ptr) ==
    [type |-> "If", Field |-> field, Then |-> then, Else |-> else,
     parent |-> NilIface, ptr |-> ptr]
Unless(field, then, else, ptr) ==
    [type |-> "Unless", Field |-> field, Then |-> then, Else |-> else,
     parent |-> NilIface, ptr |-> ptr]
\* When of src/unnamed/part_009; Condition names the predicate
When(cond, then, else, ptr) ==
    [type |-> "When", Condition |-> cond, Then |-> then, Else |-> else,
     parent |-> NilIface, ptr |-> ptr]
\* When of src/validator/rules/conditional.go, whose Then and Else are
\* ValidationRules and whose Validate checks the parent first
WhenValidationRule(cond, then, else, ptr) ==
    [type |-> "WhenValidationRule", Condition |-> cond, Then |-> then,
     Else |-> else, parent |-> NilIface, ptr |-> ptr]
\* &mockRule{}: accepts every value and records the parent it is given
mockRule == [type |-> "mockRule", parent |-> NilIface, ptr |-> TRUE]

ConditionalTypes == {"If", "Unless", "When", "WhenValidationRule"}

\* rule.(interface{ SetParent(interface{}) }) succeeds
HasSetParent(rule) ==
    rule.type \in ConditionalTypes \cup {"mockRule"} /\ rule.ptr

RECURSIVE SetParent(_, _)
\* variant: binds the rule itself and not its Then and Else rules
SetParentOneHop(rule, parent) == [rule EXCEPT !.parent = parent]
\* rule.SetParent(parent) of When, If, Unless and mockRule
SetParent(rule, parent) ==
    IF rule.type = "mockRule" THEN [rule EXCEPT !.parent = parent]
    ELSE [rule EXCEPT
            !.parent = parent,
            !.Then = IF @ # NilRule /\ HasSetParent(@) THEN SetParent(@, parent) ELSE @,
            !.Else = IF @ # NilRule /\ HasSetParent(@) THEN SetParent(@, parent) ELSE @]

\* the dispatchers' `if setter, ok := rule.(...); ok { setter.SetParent(parent) }`
Bind(rule, parent) == IF HasSetParent(rule) THEN SetParent(rule, parent) ELSE rule

\* reflect.ValueOf(parent), dereferenced when it is a pointer
Deref(parent) ==
    IF parent.kind = "ptr" THEN (IF parent.isNil THEN NilIface ELSE parent.elem)
    ELSE parent
\* v.FieldByName(name): the invalid Value when v has no such field
FieldByName(v, name) ==
    IF \E i \in DOMAIN v.fields : v.fields[i].name = name
    THEN v.fields[CHOOSE i \in DOMAIN v.fields : v.fields[i].name = name].value
    ELSE NilIface

\* w.Condition(parent) for the predicates the clients write:
\*   "Premium": if user, ok := value.(*User); ok { return user.Premium }; return false
\*   "NotNil":  return parent != nil
Condition(cond, parent) ==
    CASE cond = "Premium" ->
           /\ parent.kind = "ptr" /\ ~parent.isNil /\ parent.elem.kind = "struct"
           /\ FieldByName(parent.elem, "Premium") = BoolV(TRUE)
      [] cond = "NotNil" -> parent # NilIface

RECURSIVE RuleValidate(_, _)
\* the branch taken once the predicate is known
ThenOrElse(rule, holds, value) ==
    IF holds THEN (IF rule.Then # NilRule THEN RuleValidate(rule.Then, value) ELSE NoError)
    ELSE IF rule.Else # NilRule THEN RuleValidate(rule.Else, value)
    ELSE NoError

\* When.Validate of src/unnamed/part_009
WhenValidate(w, value) == ThenOrElse(w, Condition(w.Condition, w.parent), value)

\* When.Validate of src/validator/rules/conditional.go
WhenValidationRuleValidate(w, value) ==
    IF w.parent = NilIface THEN Errorf("parent not set")
    ELSE ThenOrElse(w, Condition(w.Condition, w.parent), value)

\* the sibling field a field-name-based rule reads: an error, or its value
NamedField(rule) ==
    IF rule.parent = NilIface THEN [err |-> Errorf("parent not set")]
    ELSE LET v == Deref(rule.parent)
         IN IF v.kind # "struct" THEN [err |-> Errorf("parent must be a struct")]
            ELSE LET field == FieldByName(v, rule.Field)
                 IN IF field = NilIface
                    THEN [err |-> Errorf("field " \o rule.Field \o " not found")]
                    ELSE IF field.kind # "bool"
                    THEN [err |-> Errorf("field " \o rule.Field \o " is not a boolean")]
                    ELSE [err |-> NoError, b |-> field.b]

\* If.Validate
IfValidate(i, value) ==
    LET f == NamedField(i)
    IN IF ~f.err.isNil THEN f.err ELSE ThenOrElse(i, f.b, value)

\* variant: applies Then when the field is true, as If does
UnlessValidateAsIf(u, value) ==
    LET f == NamedField(u)
    IN IF ~f.err.isNil THEN f.err ELSE ThenOrElse(u, f.b, value)
\* Unless.Validate
UnlessValidate(u, value) ==
    LET f == NamedField(u)
    IN IF ~f.err.isNil THEN f.err ELSE ThenOrElse(u, ~f.b, value)

\* DependentRequired{Field: field}; Parent is an exported field the caller
\* assigns, there is no SetParent
DependentRequired(field, parent) ==
    [type |-> "DependentRequired", Field |-> field, Parent |-> parent]

\* variant: only the empty string counts as zero
IsZeroEmptyString(v) == v = StrV("")
\* reflect.Value.IsZero
RECURSIVE IsZero(_)
IsZero(v) ==
    CASE v.kind = "string" -> v.s = ""
      [] v.kind = "int" -> v.n = 0
      [] v.kind = "bool" -> ~v.b
      [] v.kind = "ptr" -> v.isNil
      [] v.kind = "slice" -> v.isNil
      [] v.kind = "map" -> FALSE
      [] v.kind = "struct" -> \A i \in DOMAIN v.fields : IsZero(v.fields[i].value)

\* DependentRequired.Validate(value); value is never read
DependentRequiredValidate(d, value) ==
    IF d.Parent = NilIface THEN Errorf("parent struct not provided")
    ELSE LET parentValue == Deref(d.Parent)
         IN IF parentValue.kind # "struct" THEN Errorf("parent must be a struct")
            ELSE LET field == FieldByName(parentValue, d.Field)
                 IN IF field = NilIface
                    THEN Errorf("field " \o d.Field \o " not found")
                    ELSE IF IsZero(field)
                    THEN Errorf("field " \o d.Field \o " is required")
                    ELSE NoError

\* rule.Validate(value): dynamic dispatch on the rule's type
RuleValidate(rule, value) ==
    CASE rule.type = "Required" -> RequiredValidate(value)
      [] rule.type = "Range" -> RangeValidate(rule, value)
      [] rule.type = "If" -> IfValidate(rule, value)
      [] rule.type = "Unless" -> UnlessValidate(rule, value)
      [] rule.type = "When" -> WhenValidate(rule, value)
      [] rule.type = "WhenValidationRule" -> WhenValidationRuleValidate(rule, value)
      [] rule.type = "DependentRequired" -> DependentRequiredValidate(rule, value)
      [] rule.type = "mockRule" -> NoError

(***************************************************************************)
(* Path-keyed Validator (src/unnamed/part_002)                             *)
(***************************************************************************)
ValidationError(field, message) == [Field |-> field, Message |-> message]

\* what a walk produces: the errors collected, or a panic that unwound it
Collected(errs) == [panic |-> FALSE, errors |-> errs]
Panicked == [panic |-> TRUE, errors |-> <<>>]
AppendAll(a, b) ==
    IF a.panic \/ b.panic THEN Panicked ELSE Collected(a.errors \o b.errors)

\* the loop `for _, rule := range rules` of validateValue from index i on;
\* ro: the value was obtained through an unexported field, so that
\* value.Interface() panics
RECURSIVE applyRules(_, _, _, _, _, _)
\* variant: returns at the first rule that rejects
applyRulesFirstFailure(rs, i, field, value, parent, ro) ==
    IF i > Len(rs) THEN Collected(<<>>)
    ELSE IF ro THEN Panicked
    ELSE LET err == RuleValidate(Bind(rs[i], parent), value)
         IN IF err.isNil THEN applyRules(rs, i + 1, field, value, parent, ro)
            ELSE Collected(<<ValidationError(field, err.msg)>>)
applyRules(rs, i, field, value, parent, ro) ==
    IF i > Len(rs) THEN Collected(<<>>)
    ELSE IF ro THEN Panicked
    ELSE LET err == RuleValidate(Bind(rs[i], parent), value)
             head == IF err.isNil THEN <<>>
                     ELSE <<ValidationError(field, err.msg)>>
         IN AppendAll(Collected(head),
                      applyRules(rs, i + 1, field, value, parent, ro))

validateValue(reg, field, value, parent, ro) ==
    IF field \notin DOMAIN reg THEN Collected(<<>>)
    ELSE applyRules(reg[field], 1, field, value, parent, ro)

\* value.MapKeys(): the keys of the map in the order this call iterates
\* them; ord is the iteration order the runtime picked
MapKeys(value, ord) == SelectSeq(ord, LAMBDA k : k \in DOMAIN value.at)

RECURSIVE validateStruct(_, _, _, _, _, _)
RECURSIVE structFields(_, _, _, _, _, _, _)
RECURSIVE sliceElems(_, _, _, _, _, _, _)
RECURSIVE mapEntries(_, _, _, _, _, _, _, _)

\* variant: renders the element index counting from one
sliceElemsOneBased(reg, value, j, fieldName, parent, ro, ord) ==
    IF j >= Len(value.items) THEN Collected(<<>>)
    ELSE AppendAll(
           validateStruct(reg, value.items[j + 1],
                          fieldName \o "[" \o Itoa(j + 1) \o "]", parent, ro, ord),
           sliceElems(reg, value, j + 1, fieldName, parent, ro, ord))
\* `for j := 0; j < value.Len(); j++` over a slice of structs, from j on
sliceElems(reg, value, j, fieldName, parent, ro, ord) ==
    IF j >= Len(value.items) THEN Collected(<<>>)
    ELSE AppendAll(
           validateStruct(reg, value.items[j + 1],
                          fieldName \o "[" \o Itoa(j) \o "]", parent, ro, ord),
           sliceElems(reg, value, j + 1, fieldName, parent, ro, ord))

\* `for _, key := range value.MapKeys()` over a map of structs, from i on
mapEntries(reg, value, keys, i, fieldName, parent, ro, ord) ==
    IF i > Len(keys) THEN Collected(<<>>)
    ELSE AppendAll(
           validateStruct(reg, value.at[keys[i]],
                          fieldName \o "[" \o keys[i] \o "]", parent, ro, ord),
           mapEntries(reg, value, keys, i + 1, fieldName, parent, ro, ord))

\* the loop `for i := 0; i < t.NumField(); i++` of validateStruct, from i on
structFields(reg, current, i, parentField, parent, ro, ord) ==
    IF i > Len(current.fields) THEN Collected(<<>>)
    ELSE LET field == current.fields[i]
             value == field.value
             fro == ro \/ ~field.exported
             fieldName == IF parentField # "" THEN parentField \o "." \o field.name
                          ELSE field.name
             nested == IF value.kind = "struct"
                       THEN validateStruct(reg, value, fieldName, parent, fro, ord)
                       ELSE Collected(<<>>)
             elems == IF value.kind = "slice" /\ value.elemKind = "struct"
                      THEN sliceElems(reg, value, 0, fieldName, parent, fro, ord)
                      ELSE Collected(<<>>)
             entries == IF value.kind = "map" /\ value.elemKind = "struct"
                        THEN mapEntries(reg, value, MapKeys(value, ord), 1,
                                        fieldName, parent, fro, ord)
                        ELSE Collected(<<>>)
             own == validateValue(reg, fieldName, value, parent, fro)
         IN AppendAll(AppendAll(AppendAll(AppendAll(nested, elems), entries), own),
                      structFields(reg, current, i + 1, parentField, parent, ro, ord))

\* variant: returns the errors of the first field that has any
RECURSIVE structFieldsFirstFailure(_, _, _, _, _, _, _)
structFieldsFirstFailure(reg, current, i, parentField, parent, ro, ord) ==
    IF i > Len(current.fields) THEN Collected(<<>>)
    ELSE LET here == structFields(reg, [current EXCEPT !.fields = <<current.fields[i]>>],
                                  1, parentField, parent, ro, ord)
         IN IF here.panic \/ here.errors # <<>> THEN here
            ELSE structFieldsFirstFailure(reg, current, i + 1, parentField, parent, ro, ord)
validateStructFirstFailure(reg, current, parentField, parent, ro, ord) ==
    structFieldsFirstFailure(reg, current, 1, parentField, parent, ro, ord)
\* variant: a nested record is the context of the rules of its fields
validateStructEnclosing(reg, current, parentField, parent, ro, ord) ==
    structFields(reg, current, 1, parentField,
                 IF parentField = "" THEN parent ELSE PtrTo(current), ro, ord)
validateStruct(reg, current, parentField, parent, ro, ord) ==
    structFields(reg, current, 1, parentField, parent, ro, ord)

\* variant: returns the (empty) ValidationErrors when nothing failed
ValidateResultTypedNil(reg, val0, parent, ord) ==
    LET val == IF val0.kind = "ptr"
               THEN (IF val0.isNil THEN NilIface ELSE val0.elem)
               ELSE val0
    IN IF val.kind # "struct"
       THEN [kind |-> "ValidationError", Field |-> "input",
             Message |-> "input must be a struct"]
       ELSE LET errors == validateStruct(reg, val, "", parent, FALSE, ord)
            IN IF errors.panic THEN [kind |-> "panic"]
               ELSE [kind |-> "ValidationErrors", errors |-> errors.errors]
\* variant: a root that is not a struct is not rejected
ValidateResultNoRootCheck(reg, val0, parent, ord) ==
    LET val == IF val0.kind = "ptr"
               THEN (IF val0.isNil THEN NilIface ELSE val0.elem)
               ELSE val0
    IN IF val.kind # "struct" THEN [kind |-> "nil"]
       ELSE LET errors == validateStruct(reg, val, "", parent, FALSE, ord)
            IN IF errors.panic THEN [kind |-> "panic"]
               ELSE IF Len(errors.errors) > 0
               THEN [kind |-> "ValidationErrors", errors |-> errors.errors]
               ELSE [kind |-> "nil"]
\* the value Validate returns for data (`parent` is data as it was passed)
ValidateResult(reg, val0, parent, ord) ==
    LET val == IF val0.kind = "ptr"
               THEN (IF val0.isNil THEN NilIface ELSE val0.elem)
               ELSE val0
    IN IF val.kind # "struct"
       THEN [kind |-> "ValidationError", Field |-> "input",
             Message |-> "input must be a struct"]
       ELSE LET errors == validateStruct(reg, val, "", parent, FALSE, ord)
            IN IF errors.panic THEN [kind |-> "panic"]
               ELSE IF Len(errors.errors) > 0
               THEN [kind |-> "ValidationErrors", errors |-> errors.errors]
               ELSE [kind |-> "nil"]

(***************************************************************************)
(* Inputs.  A Go value is kept by its contents; ValueOf gives what         *)
(* reflection sees.  Order is shaped like testdata.Order                   *)
(* (src/unnamed/part_003:305-323) with the Name and Age of a user and has  *)
(* no tags; TestUser (src/unnamed/part_001:9-20) and TagOrder              *)
(* (src/validator/advanced_test.go:16-24) carry `validate` tags; Account   *)
(* has an unexported field.                                                *)
(***************************************************************************)
NoTag == <<>>
Tag1(name) == <<name>>
NoNested == [isNil |-> TRUE]
NestedStruct(f) == [isNil |-> FALSE, Field |-> f]
TestUser(ptr, name, age, nested) ==
    [kind |-> "TestUser", ptr |-> ptr, Name |-> name, Age |-> age, Nested |-> nested]
NilItems == [isNil |-> TRUE, list |-> <<>>]
ItemsOf(list) == [isNil |-> FALSE, list |-> list]
TagOrderItem(productID, quantity) == [ProductID |-> productID, Quantity |-> quantity]
TagOrder(ptr, id, items) == [kind |-> "TagOrder", ptr |-> ptr, ID |-> id, Items |-> items]
\* PremiumUser of the tag-based tests, with its fields Username, Premium and
\* Details, and UserDetails with its field Phone
NoDetails == [isNil |-> TRUE]
UserDetails(phone) == [isNil |-> FALSE, Phone |-> phone]
PremiumUser(ptr, username, premium, details) ==
    [kind |-> "PremiumUser", ptr |-> ptr, Username |-> username,
     Premium |-> premium, Details |-> details]
\* a record with a two-rule tag (Name), two untagged nested records (Home
\* held directly, Work through a pointer) and a tagged one (Billing); the
\* nested records are Addresses whose Street is tagged `required`
TaggedAddress(street) ==
    StructV(<<Field("Street", TRUE, Tag1("required"), StrV(street))>>)
Profile(ptr, name, email, home, work, billing) ==
    [kind |-> "Profile", ptr |-> ptr, Name |-> name, Email |-> email,
     HomeStreet |-> home, Work |-> work, BillingStreet |-> billing]
\* a record whose slice of strings is validated per element (`slice=if`)
\* and whose Note carries the same conditional rule (`if`)
TaggedUser(ptr, premium, tags, note) ==
    [kind |-> "TaggedUser", ptr |-> ptr, Premium |-> premium, Tags |-> tags,
     Note |-> note]
\* testdata.Order with its fields BillingAddr and ShippingAddr (*Address)
NoAddress == [isNil |-> TRUE]
AddressAt(street) == [isNil |-> FALSE, Street |-> street]
ShippedOrder(ptr, street, shipping) ==
    [kind |-> "ShippedOrder", ptr |-> ptr, Street |-> street, ShippingAddr |-> shipping]
\* a record with the Premium and PremiumDetails of testdata.User and the
\* BillingAddr and Items of testdata.Order
PremiumOrder(ptr, premium, details, street, items) ==
    [kind |-> "PremiumOrder", ptr |-> ptr, Premium |-> premium,
     PremiumDetails |-> details, Street |-> street, Items |-> items]
Address(street) == StructV(<<Field("Street", TRUE, NoTag, StrV(street))>>)
OrderItem(quantity) == StructV(<<Field("Quantity", TRUE, NoTag, IntV(quantity))>>)
Contact(value) == StructV(<<Field("Value", TRUE, NoTag, StrV(value))>>)

NilValue == [kind |-> "nil"]                      \* the nil interface
NilPointer == [kind |-> "nilptr"]                 \* (*Order)(nil)
StringValue(s) == [kind |-> "string", s |-> s]    \* a bare string
\* Order{...} (ptr = FALSE) or &Order{...} (ptr = TRUE)
Order(ptr, name, age, street, items, contacts) ==
    [kind |-> "Order", ptr |-> ptr, Name |-> name, Age |-> age,
     Street |-> street, Items |-> items, Contacts |-> contacts]
\* a record with an unexported field
Account(ptr, name, secret) ==
    [kind |-> "Account", ptr |-> ptr, Name |-> name, secret |-> secret]

\* reflect.ValueOf(data)
StructOf(d) ==
    CASE d.kind = "Order" ->
           StructV(<<Field("Name", TRUE, NoTag, StrV(d.Name)),
                     Field("Age", TRUE, NoTag, IntV(d.Age)),
                     Field("BillingAddr", TRUE, NoTag, Address(d.Street)),
                     Field("Items", TRUE, NoTag,
                           SliceV("struct", [j \in DOMAIN d.Items |-> OrderItem(d.Items[j])])),
                     Field("Contacts", TRUE, NoTag,
                           MapV("struct", [k \in DOMAIN d.Contacts |-> Contact(d.Contacts[k])]))>>)
      [] d.kind = "Account" ->
           StructV(<<Field("Name", TRUE, Tag1("required"), StrV(d.Name)),
                     Field("secret", FALSE, Tag1("length"), StrV(d.secret))>>)
      [] d.kind = "TestUser" ->
           StructV(<<Field("Name", TRUE, Tag1("required"), StrV(d.Name)),
                     Field("Age", TRUE, Tag1("range"), IntV(d.Age)),
                     Field("Premium", TRUE, NoTag, BoolV(FALSE)),
                     Field("Nested", TRUE, Tag1("required"),
                           IF d.Nested.isNil THEN NilPtr
                           ELSE PtrTo(StructV(<<Field("Field", TRUE, Tag1("required"),
                                                      StrV(d.Nested.Field))>>)))>>)
      [] d.kind = "TagOrder" ->
           StructV(<<Field("ID", TRUE, Tag1("required"), StrV(d.ID)),
                     Field("Items", TRUE, <<"slice", "=", "required">>,
                           IF d.Items.isNil THEN NilSlice("struct")
                           ELSE SliceV("struct",
                                  [j \in DOMAIN d.Items.list |->
                                     StructV(<<Field("ProductID", TRUE, Tag1("required"),
                                                     StrV(d.Items.list[j].ProductID)),
                                               Field("Quantity", TRUE, <<"min", "=", "0">>,
                                                     IntV(d.Items.list[j].Quantity))>>)]))>>)
      [] d.kind = "PremiumUser" ->
           StructV(<<Field("Username", TRUE, Tag1("required"), StrV(d.Username)),
                     Field("Premium", TRUE, NoTag, BoolV(d.Premium)),
                     Field("Details", TRUE, Tag1("if"),
                           IF d.Details.isNil THEN NilPtr
                           ELSE PtrTo(StructV(<<Field("Phone", TRUE, Tag1("required"),
                                                      StrV(d.Details.Phone))>>)))>>)
      [] d.kind = "TaggedUser" ->
           StructV(<<Field("Premium", TRUE, NoTag, BoolV(d.Premium)),
                     Field("Tags", TRUE, <<"slice", "=", "if">>,
                           SliceV("string", [j \in DOMAIN d.Tags |-> StrV(d.Tags[j])])),
                     Field("Note", TRUE, Tag1("if"), StrV(d.Note))>>)
      [] d.kind = "Profile" ->
           StructV(<<Field("Name", TRUE, <<"required", ",", "range">>, StrV(d.Name)),
                     Field("Email", TRUE, Tag1("required"), StrV(d.Email)),
                     Field("Home", TRUE, NoTag, TaggedAddress(d.HomeStreet)),
                     Field("Work", TRUE, NoTag,
                           IF d.Work.isNil THEN NilPtr
                           ELSE PtrTo(TaggedAddress(d.Work.Street))),
                     Field("Billing", TRUE, Tag1("range"),
                           TaggedAddress(d.BillingStreet))>>)
      [] d.kind = "PremiumOrder" ->
           StructV(<<Field("Premium", TRUE, NoTag, BoolV(d.Premium)),
                     Field("PremiumDetails", TRUE, NoTag, StrV(d.PremiumDetails)),
                     Field("BillingAddr", TRUE, NoTag, Address(d.Street)),
                     Field("Items", TRUE, NoTag,
                           SliceV("struct",
                                  [j \in DOMAIN d.Items |-> OrderItem(d.Items[j])]))>>)
      [] d.kind = "ShippedOrder" ->
           StructV(<<Field("BillingAddr", TRUE, NoTag, Address(d.Street)),
                     Field("ShippingAddr", TRUE, NoTag,
                           IF d.ShippingAddr.isNil THEN NilPtr
                           ELSE PtrTo(Address(d.ShippingAddr.Street)))>>)
ValueOf(d) ==
    CASE d.kind = "nil" -> NilIface
      [] d.kind = "nilptr" -> NilPtr
      [] d.kind = "string" -> StrV(d.s)
      [] OTHER -> IF d.ptr THEN PtrTo(StructOf(d)) ELSE StructOf(d)

Names == {"", "ab"}
Ages == {15, 25}
Quantities == {0, 25}
ContactKeys == {"email", "phone"}
SeqsUpTo(S, n) == UNION {[1..k -> S] : k \in 0..n}
ItemLists == SeqsUpTo(Quantities, MaxItems)
ContactMaps == UNION {[K -> Names] : K \in SUBSET ContactKeys}
NoContacts == [k \in {} |-> ""]
KeySequences(K) ==
    {s \in [1..Cardinality(K) -> K] : \A i, j \in DOMAIN s : s[i] = s[j] => i = j}
\* the orders in which one call may iterate the maps of d (Go leaves the
\* iteration order of a map unspecified, and it differs from call to call)
IterationOrders(d) ==
    IF d.kind = "Order" THEN KeySequences(DOMAIN d.Contacts) ELSE {<<>>}

Orders ==
    {Order(FALSE, n, a, "ab", <<>>, NoContacts) : n \in Names, a \in Ages}
    \cup {Order(FALSE, n, 25, "", <<>>, NoContacts) : n \in Names}
    \cup {Order(FALSE, "ab", 25, "ab", it, NoContacts) : it \in ItemLists}
    \cup {Order(FALSE, "ab", 25, "ab", <<>>, c) :
              c \in {m \in ContactMaps : "email" \in DOMAIN m}}
    \cup {Order(FALSE, "", 25, "ab", it, [k \in ContactKeys |-> ""]) :
              it \in {<<>>, <<0, 0>>}}
    \cup {Order(TRUE, "", 15, "ab", <<>>, NoContacts)}
\* roots that are not records
NonRecords == {NilValue, NilPointer, StringValue("not a struct")}
PathInputs == Orders \cup NonRecords
UnexportedInputs == {Account(p, n, s) : p \in BOOLEAN, n \in Names, s \in Names}

TestUsers ==
    {TestUser(p, n, a, nested) : p \in BOOLEAN, n \in Names, a \in Ages,
         nested \in {NoNested} \cup {NestedStruct(f) : f \in Names}}
TagOrders ==
    {TagOrder(p, id, items) : p \in BOOLEAN, id \in Names,
         items \in {NilItems, ItemsOf(<<>>), ItemsOf(<<TagOrderItem("P1", 1)>>),
                    ItemsOf(<<TagOrderItem("", 1)>>),
                    ItemsOf(<<TagOrderItem("P1", 1), TagOrderItem("P2", -1)>>)}}
Accounts == {Account(p, n, s) : p \in BOOLEAN, n \in Names, s \in Names}
TagInputs ==
    NonRecords \cup TestUsers \cup TagOrders \cup Accounts
      \cup {Order(p, "", 15, "", <<0>>, NoContacts) : p \in BOOLEAN}

\* the name of an unexported field, used as an identifier
UnexportedIds == {"secret"}
RuleSet == {Required, Range(18, 100)}
\* the registrations AddRule(field, rule) the clients make: Required on the
\* string fields, Range on the numeric ones, both on Name and Age
Registrations ==
    ({"Name", "Age"} \X RuleSet)
      \cup ({"BillingAddr.Street", "Contacts[email].Value", "Contacts[phone].Value"}
              \X {Required})
      \cup ({"Items[0].Quantity", "Items[1].Quantity", "Items.Quantity"}
              \X {Range(18, 100)})
UnexportedRegistrations == UnexportedIds \X RuleSet
\* rule names the clients of the tag-based Validator register
RuleNames == {"required", "range"}

NoCall == [kind |-> "none"]
Void == [kind |-> "void"]

\* New()
Init ==
    /\ impl \in {"path", "tag"}
    /\ rules = [id \in {} |-> <<>>]
    /\ op = "New"
    /\ data = NoCall
    /\ result = NoCall
    /\ nAdds = 0

\* variant: a second registration replaces the first
AddRuleReplacing(reg, field, rule) == (field :> <<rule>>) @@ reg
\* Validator.AddRule(field, rule)
AddRuleTo(reg, field, rule) ==
    LET made == IF field \notin DOMAIN reg THEN (field :> <<>>) @@ reg ELSE reg
    IN [made EXCEPT ![field] = Append(made[field], rule)]

AddRuleOn(R) ==
    /\ impl = "path"
    /\ nAdds < MaxRules
    /\ \E r \in R :
         /\ rules' = AddRuleTo(rules, r[1], r[2])
         /\ data' = [kind |-> "AddRule", field |-> r[1], rule |-> r[2]]
    /\ op' = "AddRule"
    /\ result' = Void
    /\ nAdds' = nAdds + 1
    /\ UNCHANGED impl

AddRule == AddRuleOn(Registrations)
AddRuleUnexported == AddRuleOn(UnexportedRegistrations)

\* the paths under which the walk of current dispatches: every field, and
\* every field of the records, slices of records and maps of records in it
RECURSIVE walkedPaths(_, _)
walkedPaths(current, parentField) ==
    UNION {LET value == current.fields[i].value
               fieldName == IF parentField # ""
                            THEN parentField \o "." \o current.fields[i].name
                            ELSE current.fields[i].name
           IN {fieldName}
                \cup (IF value.kind = "struct" THEN walkedPaths(value, fieldName) ELSE {})
                \cup (IF value.kind = "slice" /\ value.elemKind = "struct"
                      THEN UNION {walkedPaths(value.items[j],
                                              fieldName \o "[" \o Itoa(j - 1) \o "]") :
                                    j \in DOMAIN value.items}
                      ELSE {})
                \cup (IF value.kind = "map" /\ value.elemKind = "struct"
                      THEN UNION {walkedPaths(value.at[k], fieldName \o "[" \o k \o "]") :
                                    k \in DOMAIN value.at}
                      ELSE {})
             : i \in DOMAIN current.fields}
\* the registry Validate leaves: `crossField.SetParent(parent)` of
\* validateValue has bound every rule with SetParent that was dispatched
\* (a walk that panics leaves the bindings made before the panic; the
\* records that make it panic are validated only against rules without
\* SetParent, which no binding changes)
ValidateBound(reg, val0, parent) ==
    LET val == IF val0.kind = "ptr"
               THEN (IF val0.isNil THEN NilIface ELSE val0.elem)
               ELSE val0
    IN IF val.kind # "struct" THEN reg
       ELSE [f \in DOMAIN reg |->
               IF f \in walkedPaths(val, "")
               THEN [i \in DOMAIN reg[f] |-> Bind(reg[f][i], parent)]
               ELSE reg[f]]

\* Validator.Validate(data) on the inputs of S
ValidateOn(S) ==
    /\ impl = "path"
    /\ \E d \in S :
         \E ord \in IterationOrders(d) :
           /\ data' = d
           /\ result' = ValidateResult(rules, ValueOf(d), ValueOf(d), ord)
           /\ rules' = ValidateBound(rules, ValueOf(d), ValueOf(d))
    /\ op' = "Validate"
    /\ UNCHANGED <<impl, nAdds>>

Validate == ValidateOn(PathInputs)
ValidateUnexported == ValidateOn(UnexportedInputs)

InitPath == Init /\ impl = "path"
NextPath == AddRule \/ Validate
SpecPath == InitPath /\ [][NextPath]_vars

(***************************************************************************)
(* Reading a call's outcome                                                *)
(***************************************************************************)
\* the entries of the ValidationErrors the last Validate returned
Entries == IF result.kind = "ValidationErrors" THEN result.errors ELSE <<>>
EntriesOf(p) == SelectSeq(Entries, LAMBDA e : e.Field = p)
ValidatedOrder == impl = "path" /\ op = "Validate" /\ data.kind = "Order"

\* the field paths of an Order as the documentation writes them
ItemPath(j) == CASE j = 0 -> "Items[0].Quantity" [] j = 1 -> "Items[1].Quantity"
                 [] j = 2 -> "Items[2].Quantity" [] j = 3 -> "Items[3].Quantity"
                 [] j = 4 -> "Items[4].Quantity"
ContactPath(k) == CASE k = "email" -> "Contacts[email].Value"
                    [] k = "phone" -> "Contacts[phone].Value"
\* every field of the record d, at every nesting level, with its value
FieldPositions(d) ==
    {[path |-> "Name", value |-> StrV(d.Name)],
     [path |-> "Age", value |-> IntV(d.Age)],
     [path |-> "BillingAddr", value |-> Address(d.Street)],
     [path |-> "BillingAddr.Street", value |-> StrV(d.Street)],
     [path |-> "Items", value |-> StructOf(d).fields[4].value],
     [path |-> "Contacts", value |-> StructOf(d).fields[5].value]}
    \cup {[path |-> ItemPath(j - 1), value |-> IntV(d.Items[j])] : j \in DOMAIN d.Items}
    \cup {[path |-> ContactPath(k), value |-> StrV(d.Contacts[k])] : k \in DOMAIN d.Contacts}
\* the rules registered under p, and those of them that reject v
RulesOf(p) == IF p \in DOMAIN rules THEN rules[p] ELSE <<>>
Rejecting(p, v) == SelectSeq(RulesOf(p), LAMBDA r : ~RuleValidate(r, v).isNil)

(***************************************************************************)
(* C1: in the path-keyed Validator, when exactly k of the n rules          *)
(* registered under a field path reject the field's value, the result of   *)
(* Validate holds exactly k entries for that path, one per rejecting rule, *)
(* in registration order; a rejecting rule does not stop the later ones.   *)
(***************************************************************************)
C1_EntriesPerField ==
    ValidatedOrder =>
      \A pos \in FieldPositions(data) :
        LET rej == Rejecting(pos.path, pos.value)
            got == EntriesOf(pos.path)
        IN /\ Len(got) = Len(rej)
           /\ \A i \in DOMAIN got :
                got[i].Message = RuleValidate(rej[i], pos.value).msg

\* Name = "" under the rules <<Range, Required>>: both reject, two entries
C1_Witness ==
    /\ ValidatedOrder
    /\ data.Name = ""
    /\ RulesOf("Name") = <<Range(18, 100), Required>>
    /\ EntriesOf("Name") = <<ValidationError("Name", "value must be numeric"),
                             ValidationError("Name", "value is required")>>

(***************************************************************************)
(* C2: Validate does not stop at the first failure: the result holds the   *)
(* failures of every field at every nesting level, in field declaration    *)
(* order; {Name: "", Age: 15} under Name: Required, Age: Range{18,100}     *)
(* yields exactly the two entries of scenario A.                           *)
(***************************************************************************)
\* declaration order of the fields of an Order (map entries share a rank:
\* the order among them is the map's)
Rank(p) == CASE p = "Name" -> 1 [] p = "Age" -> 2
             [] p = "BillingAddr.Street" -> 3 [] p = "BillingAddr" -> 4
             [] p = "Items[0].Quantity" -> 5 [] p = "Items[1].Quantity" -> 6
             [] p = "Items[2].Quantity" -> 7 [] p = "Items[3].Quantity" -> 8
             [] p = "Items" -> 9
             [] p = "Contacts[email].Value" -> 10 [] p = "Contacts[phone].Value" -> 10
             [] p = "Contacts" -> 11
             [] OTHER -> 0
\* one element per (field, rejecting rule) of the record d
Rejections(d) ==
    UNION {{<<pos.path, i>> : i \in 1..Len(Rejecting(pos.path, pos.value))} :
             pos \in FieldPositions(d)}
ScenarioA ==
    /\ data.Name = "" /\ data.Age = 15 /\ data.Street = "ab"
    /\ data.Items = <<>> /\ data.Contacts = NoContacts
    /\ DOMAIN rules = {"Name", "Age"}
    /\ rules["Name"] = <<Required>> /\ rules["Age"] = <<Range(18, 100)>>
C2_AllFailuresInOrder ==
    ValidatedOrder =>
      /\ Len(Entries) = Cardinality(Rejections(data))
      /\ \A i, j \in DOMAIN Entries :
           i < j => Rank(Entries[i].Field) <= Rank(Entries[j].Field)
      /\ \A i \in DOMAIN Entries : Rank(Entries[i].Field) > 0
      /\ ScenarioA =>
           result = [kind |-> "ValidationErrors", errors |->
                      <<ValidationError("Name", "value is required"),
                        ValidationError("Age", "value must be greater than or equal to 18")>>]

C2_Witness ==
    /\ ValidatedOrder /\ ScenarioA
    /\ Len(Entries) = 2

(***************************************************************************)
(* C3: AddRule(id, r) appends r to the list of id, never fails, never      *)
(* replaces or removes an earlier rule of id and leaves the lists of the   *)
(* other identifiers unchanged; nothing else changes the registry.         *)
(***************************************************************************)
RegisteredCount ==
    Cardinality(UNION {{<<id, i>> : i \in 1..Len(rules[id])} : id \in DOMAIN rules})
AddRuleStep ==
    IF nAdds' # nAdds
    THEN /\ op' = "AddRule" /\ result' = Void
         /\ DOMAIN rules' = DOMAIN rules \cup {data'.field}
         /\ rules'[data'.field] = RulesOf(data'.field) \o <<data'.rule>>
         /\ \A id \in DOMAIN rules \ {data'.field} : rules'[id] = rules[id]
    ELSE rules' = rules
C3_AddRuleAppends ==
    /\ [](impl = "path" => RegisteredCount = nAdds)
    /\ [][impl = "path" => AddRuleStep]_vars

\* two registrations under Name, kept in call order
C3_Witness ==
    /\ impl = "path" /\ op = "AddRule" /\ nAdds = 2
    /\ data = [kind |-> "AddRule", field |-> "Name", rule |-> Range(18, 100)]
    /\ rules = ("Name" :> <<Required, Range(18, 100)>>)

(***************************************************************************)
(* C5: field paths are rendered parent.Field, Field[i].Sub and             *)
(* Field[key].Sub; a failure in the second element of Items is reported    *)
(* under Items[1] whatever the slice length and the other elements, and    *)
(* elements are visited in increasing index order.                         *)
(***************************************************************************)
Fails(p, v) == Rejecting(p, v) # <<>>
C5_PathRendering ==
    ValidatedOrder =>
      /\ \A e \in DOMAIN Entries :
           Entries[e].Field \in {pos.path : pos \in FieldPositions(data)}
      /\ EntriesOf("Items[1].Quantity") # <<>>
           <=> (Len(data.Items) >= 2 /\ Fails("Items[1].Quantity", IntV(data.Items[2])))
      /\ EntriesOf("Items[0].Quantity") # <<>>
           <=> (Len(data.Items) >= 1 /\ Fails("Items[0].Quantity", IntV(data.Items[1])))
      /\ EntriesOf("BillingAddr.Street") # <<>>
           <=> Fails("BillingAddr.Street", StrV(data.Street))
      /\ \A k \in ContactKeys :
           EntriesOf(ContactPath(k)) # <<>>
             <=> (k \in DOMAIN data.Contacts /\ Fails(ContactPath(k), StrV(data.Contacts[k])))
      /\ \A a, b \in DOMAIN Entries : \A x, y \in 0..MaxItems :
           (a < b /\ Entries[a].Field = ItemPath(x) /\ Entries[b].Field = ItemPath(y))
             => x <= y

\* the first element passes, the second fails: one entry, under Items[1]
C5_Witness ==
    /\ ValidatedOrder
    /\ Len(data.Items) >= 2 /\ data.Items[1] = 25 /\ data.Items[2] = 0
    /\ RulesOf("Items[0].Quantity") = <<Range(18, 100)>>
    /\ RulesOf("Items[1].Quantity") = <<Range(18, 100)>>
    /\ Entries = <<ValidationError("Items[1].Quantity",
                                   "value must be greater than or equal to 18")>>

(***************************************************************************)
(* C6: a rule registered under the element-generic identifier              *)
(* Items.Quantity is applied to the Quantity of every element of Items,    *)
(* each failure being reported at Items[i].Quantity.                       *)
(***************************************************************************)
C6_GenericIdentifierApplied ==
    ValidatedOrder =>
      \A j \in DOMAIN data.Items :
        Fails("Items.Quantity", IntV(data.Items[j]))
          => EntriesOf(ItemPath(j - 1)) # <<>>

(***************************************************************************)
(* C7: validating an unmodified record again returns the identical error   *)
(* sequence, also when a map of records has two or more failing entries.   *)
(***************************************************************************)
C7_Revalidation ==
    [][(impl = "path" /\ op = "Validate" /\ op' = "Validate" /\ data' = data)
         => result' = result]_vars

(***************************************************************************)
(* Tag-based Validator (src/unnamed/part_003)                              *)
(***************************************************************************)
\* strings.Split on a tag kept as a sequence of tokens: the pieces between
\* the occurrences of the separator token
RECURSIVE Split(_, _)
Split(toks, sep) ==
    IF \A i \in DOMAIN toks : toks[i] # sep THEN <<toks>>
    ELSE LET at == CHOOSE i \in DOMAIN toks :
                     toks[i] = sep /\ \A j \in 1..(i - 1) : toks[j] # sep
         IN <<SubSeq(toks, 1, at - 1)>> \o Split(SubSeq(toks, at + 1, Len(toks)), sep)
\* the string a sequence of tokens spells
RECURSIVE Join(_)
Join(toks) == IF toks = <<>> THEN "" ELSE Head(toks) \o Join(Tail(toks))

\* strconv.ParseFloat on the numerals that occur in tags
ParseFloat(s) ==
    CASE s = "0" -> [ok |-> TRUE, val |-> 0]
      [] s = "18" -> [ok |-> TRUE, val |-> 18]
      [] OTHER -> [ok |-> FALSE, val |-> 0]
\* rules.Min{Value: min}.Validate(value)
MinValidate(min, value) ==
    IF value.kind # "int" THEN Errorf("value must be numeric")
    ELSE IF value.n < min THEN Errorf("value must be at least " \o Itoa(min))
    ELSE NoError

\* fmt.Errorf("%s: %v", name, err) when err is an error, nil otherwise
Prefixed(name, err) == IF err.isNil THEN NoError ELSE Errorf(name \o ": " \o err.msg)

\* what a part of the tag-based walk yields: its error, and the registry as
\* the SetParent calls made so far have left the rules held by pointer
Step(err, reg) == [err |-> err, reg |-> reg]

RECURSIVE TagValidateStruct(_, _, _)
RECURSIVE tagStructFields(_, _, _, _, _)
RECURSIVE tagFieldRules(_, _, _, _, _)
RECURSIVE tagSliceItems(_, _, _, _)

\* the item at index i, seen through a non-nil pointer
sliceItem(field, i) ==
    IF field.items[i + 1].kind = "ptr" /\ ~field.items[i + 1].isNil
    THEN field.items[i + 1].elem
    ELSE field.items[i + 1]
\* one item of validateSlice: a struct is walked, anything else is handed
\* to `rule` as it is, without a SetParent call; name is the registered
\* name of `rule`
tagSliceItem(reg, item, name) ==
    IF item.kind = "struct" THEN TagValidateStruct(reg, item, TRUE)
    ELSE Step(RuleValidate(reg[name], item), reg)
\* `return fmt.Errorf("item at index %d: %v", i, err)` when the item at i
\* yielded an error, the items after i otherwise
sliceItemChecked(r, field, name, i) ==
    IF ~r.err.isNil
    THEN Step(Errorf("item at index " \o Itoa(i) \o ": " \o r.err.msg), r.reg)
    ELSE tagSliceItems(r.reg, field, name, i + 1)
\* the loop `for i := 0; i < field.Len(); i++` of validateSlice, from i on
tagSliceItems(reg, field, name, i) ==
    IF i >= Len(field.items) THEN Step(NoError, reg)
    ELSE sliceItemChecked(tagSliceItem(reg, sliceItem(field, i), name), field, name, i)

\* Validator.validateSlice(field, tag)
TagValidateSlice(reg, field, tag) ==
    IF tag = <<>> THEN Step(NoError, reg)
    ELSE LET parts == Split(tag, "=")
         IN IF Len(parts) # 2
            THEN Step(Errorf("invalid slice validation format: " \o Join(tag)), reg)
            ELSE IF Join(parts[2]) \notin DOMAIN reg
            THEN Step(Errorf("unknown validation rule: " \o Join(parts[2])), reg)
            ELSE IF field.kind # "slice" THEN Step(Errorf("field is not a slice"), reg)
            ELSE IF field.isNil THEN Step(Errorf("slice is nil"), reg)
            ELSE tagSliceItems(reg, field, Join(parts[2]), 0)

\* case "min": the bound is parsed and rules.Min applied
tagMin(ruleValue, parsed, field) ==
    IF ~parsed.ok THEN Errorf("invalid min value: " \o ruleValue)
    ELSE MinValidate(parsed.val, field)
\* the registered rule after `setter.SetParent(parent)`, applied to field;
\* a rule held by pointer stays bound in the registry
tagDispatch(reg, ruleName, bound, field) ==
    Step(RuleValidate(bound, field), [reg EXCEPT ![ruleName] = bound])
\* variant: a rule name that is not registered is skipped
tagFieldRuleSkipUnknown(reg, field, rule, ruleName, ruleValue, parent) ==
    CASE ruleName = "slice" -> TagValidateSlice(reg, field, rule)
      [] ruleName = "min" -> Step(tagMin(ruleValue, ParseFloat(ruleValue), field), reg)
      [] OTHER ->
           IF ruleName \notin DOMAIN reg THEN Step(NoError, reg)
           ELSE tagDispatch(reg, ruleName, Bind(reg[ruleName], parent), field)
\* the `switch ruleName` of validateField for one rule of the tag
tagFieldRule(reg, field, rule, ruleName, ruleValue, parent) ==
    CASE ruleName = "slice" -> TagValidateSlice(reg, field, rule)
      [] ruleName = "min" -> Step(tagMin(ruleValue, ParseFloat(ruleValue), field), reg)
      [] OTHER ->
           IF ruleName \notin DOMAIN reg
           THEN Step(Errorf("unknown validation rule: " \o ruleName), reg)
           ELSE tagDispatch(reg, ruleName, Bind(reg[ruleName], parent), field)
\* `parts := strings.Split(rule, "=")`, ruleName and ruleValue
tagFieldRuleSplit(reg, field, rule, parts, parent) ==
    tagFieldRule(reg, field, rule, Join(parts[1]),
                 IF Len(parts) > 1 THEN Join(parts[2]) ELSE "", parent)
\* variant: the rules after i are applied first, so that the last rule of
\* the tag that rejects is the one reported
fieldRuleCheckedLast(r, field, specs, i, parent) ==
    LET rest == tagFieldRules(r.reg, field, specs, i + 1, parent)
    IN IF ~rest.err.isNil THEN rest ELSE r
\* `return err` when the rule at i yielded one, the rules after i otherwise
fieldRuleChecked(r, field, specs, i, parent) ==
    IF ~r.err.isNil THEN r ELSE tagFieldRules(r.reg, field, specs, i + 1, parent)
\* the loop `for _, rule := range strings.Split(tag, ",")` of validateField
tagFieldRules(reg, field, specs, i, parent) ==
    IF i > Len(specs) THEN Step(NoError, reg)
    ELSE fieldRuleChecked(
           tagFieldRuleSplit(reg, field, specs[i], Split(specs[i], "="), parent),
           field, specs, i, parent)

\* Validator.validateField(field, tag, parent)
TagValidateField(reg, field, tag, parent) ==
    IF tag = <<>> THEN Step(NoError, reg)
    ELSE tagFieldRules(reg, field, Split(tag, ","), 1, parent)

\* `return fmt.Errorf("%s: %v", fieldType.Name, err)` when r holds an error,
\* the fields after i otherwise
fieldChecked(r, val, i, parent, addr) ==
    IF ~r.err.isNil THEN Step(Prefixed(val.fields[i].name, r.err), r.reg)
    ELSE tagStructFields(r.reg, val, i + 1, parent, addr)
\* the field's own tag, dispatched after the recursion into the record it
\* holds has returned no error
ownAfterNested(nested, val, i, field, parent, addr) ==
    IF ~nested.err.isNil
    THEN Step(Prefixed(val.fields[i].name, nested.err), nested.reg)
    ELSE fieldChecked(TagValidateField(nested.reg, field, val.fields[i].tag, parent),
                      val, i, parent, addr)
\* a field that is not a nil pointer: seen through its pointer, walked when
\* it is a record, then dispatched to its tag
tagStructField(reg, val, i, field, parent, addr) ==
    ownAfterNested(IF field.kind = "struct"
                   THEN TagValidateStruct(reg, field,
                                          addr \/ val.fields[i].value.kind = "ptr")
                   ELSE Step(NoError, reg),
                   val, i, field, parent, addr)
\* variant: a field without a tag is walked like a tagged one
tagStructFieldsWalkUntagged(reg, val, i, parent, addr) ==
    IF i > Len(val.fields) THEN Step(NoError, reg)
    ELSE LET fieldType == val.fields[i]
             field0 == fieldType.value
         IN IF ~fieldType.exported THEN tagStructFields(reg, val, i + 1, parent, addr)
            ELSE IF field0.kind = "ptr" /\ field0.isNil
            THEN fieldChecked(TagValidateField(reg, field0, fieldType.tag, parent),
                              val, i, parent, addr)
            ELSE tagStructField(reg, val, i,
                                IF field0.kind = "ptr" THEN field0.elem ELSE field0,
                                parent, addr)
\* the loop `for i := 0; i < val.NumField(); i++` of validateStruct, from i on
tagStructFields(reg, val, i, parent, addr) ==
    IF i > Len(val.fields) THEN Step(NoError, reg)
    ELSE LET fieldType == val.fields[i]
             field0 == fieldType.value
         IN IF ~fieldType.exported THEN tagStructFields(reg, val, i + 1, parent, addr)
            ELSE IF fieldType.tag = <<>> THEN tagStructFields(reg, val, i + 1, parent, addr)
            ELSE IF field0.kind = "ptr" /\ field0.isNil
            THEN fieldChecked(TagValidateField(reg, field0, fieldType.tag, parent),
                              val, i, parent, addr)
            ELSE tagStructField(reg, val, i,
                                IF field0.kind = "ptr" THEN field0.elem ELSE field0,
                                parent, addr)

\* Validator.validateStruct(val); addr: val.CanAddr()
TagValidateStruct(reg, val0, addr) ==
    IF val0.kind = "ptr" /\ val0.isNil THEN Step(NoError, reg)
    ELSE LET val == IF val0.kind = "ptr" THEN val0.elem ELSE val0
             canAddr == addr \/ val0.kind = "ptr"
             parent == IF canAddr THEN PtrTo(val) ELSE NilIface
         IN IF val.kind # "struct" THEN Step(NoError, reg)
            ELSE tagStructFields(reg, val, 1, parent, canAddr)

\* what an error return of Validate looks like to the caller
Returned(err) == IF err.isNil THEN [kind |-> "nil"] ELSE [kind |-> "error", msg |-> err.msg]

\* Validator.Validate(value) of the tag-based Validator: the error it
\* returns and the registry it leaves
TagValidateCall(reg, value) ==
    IF value = NilIface THEN Step(Errorf("value is nil"), reg)
    ELSE IF value.kind = "ptr" /\ value.isNil THEN Step(Errorf("value is nil"), reg)
    ELSE LET val == IF value.kind = "ptr" THEN value.elem ELSE value
         IN IF val.kind # "struct"
            THEN Step(Errorf("value must be a struct or pointer to struct"), reg)
            ELSE TagValidateStruct(reg, val, value.kind = "ptr")

\* the value the tag-based Validate returns for value
TagValidateResult(reg, value) == Returned(TagValidateCall(reg, value).err)

\* what ValidateAll has collected: the error messages, or a panic, and the
\* registry as the SetParent calls made so far have left it
Gathered(panic, errs, reg) == [panic |-> panic, errors |-> errs, reg |-> reg]
\* the message of one field, when it has an error
One(name, r) ==
    Gathered(FALSE, IF r.err.isNil THEN <<>> ELSE <<name \o ": " \o r.err.msg>>, r.reg)
\* head, then the rest of the loop (which started from head.reg)
Sequenced(head, rest) ==
    IF head.panic THEN head
    ELSE Gathered(rest.panic, head.errors \o rest.errors, rest.reg)

RECURSIVE tagNilPointerRules(_, _, _, _, _, _)
RECURSIVE tagAllFields(_, _, _, _)

\* one rule applied to a nil pointer field after SetParent(val.Addr()...),
\* then the rules after i
nilPointerRule(reg, specs, i, name, val, addr, ruleName, bound) ==
    Sequenced(One(name, tagDispatch(reg, ruleName, bound, NilIface)),
              tagNilPointerRules([reg EXCEPT ![ruleName] = bound], specs, i + 1,
                                 name, val, addr))
\* the rule named ruleName, for a nil pointer field
nilPointerNamed(reg, specs, i, name, val, addr, ruleName) ==
    IF ruleName \notin DOMAIN reg
    THEN Sequenced(Gathered(FALSE, <<name \o ": unknown validation rule: " \o ruleName>>,
                            reg),
                   tagNilPointerRules(reg, specs, i + 1, name, val, addr))
    ELSE IF HasSetParent(reg[ruleName]) /\ ~addr THEN Gathered(TRUE, <<>>, reg)
    ELSE nilPointerRule(reg, specs, i, name, val, addr, ruleName,
                        Bind(reg[ruleName], PtrTo(val)))
\* the loop over strings.Split(tag, ",") ValidateAll runs for a nil pointer
\* field of val; val.Addr() panics when val is not addressable
tagNilPointerRules(reg, specs, i, name, val, addr) ==
    IF i > Len(specs) THEN Gathered(FALSE, <<>>, reg)
    ELSE nilPointerNamed(reg, specs, i, name, val, addr, Join(specs[i]))

\* what ValidateAll does with the field at i: a nil pointer, a record, a
\* slice, anything else
tagAllField(reg, val, i, field, addr) ==
    IF ~val.fields[i].exported \/ val.fields[i].tag = <<>> THEN Gathered(FALSE, <<>>, reg)
    ELSE IF val.fields[i].value.kind = "ptr" /\ val.fields[i].value.isNil
    THEN tagNilPointerRules(reg, Split(val.fields[i].tag, ","), 1,
                            val.fields[i].name, val, addr)
    ELSE IF field.kind = "struct"
    THEN One(val.fields[i].name,
             TagValidateStruct(reg, field, addr \/ val.fields[i].value.kind = "ptr"))
    ELSE IF field.kind = "slice"
    THEN One(val.fields[i].name, TagValidateSlice(reg, field, val.fields[i].tag))
    ELSE IF ~addr THEN Gathered(TRUE, <<>>, reg)
    ELSE One(val.fields[i].name,
             TagValidateField(reg, field, val.fields[i].tag, PtrTo(val)))
\* the fields after i, unless the field at i panicked
allFieldsAfter(head, val, i, addr) ==
    IF head.panic THEN head
    ELSE Sequenced(head, tagAllFields(head.reg, val, i + 1, addr))
\* the loop `for i := 0; i < val.NumField(); i++` of ValidateAll, from i on
tagAllFields(reg, val, i, addr) ==
    IF i > Len(val.fields) THEN Gathered(FALSE, <<>>, reg)
    ELSE allFieldsAfter(
           tagAllField(reg, val, i,
                       IF val.fields[i].value.kind = "ptr" /\ ~val.fields[i].value.isNil
                       THEN val.fields[i].value.elem
                       ELSE val.fields[i].value,
                       addr),
           val, i, addr)

\* Validator.ValidateAll(value): what it has collected and the registry it
\* leaves
TagValidateAllCall(reg, value) ==
    IF value = NilIface THEN Gathered(FALSE, <<"value is nil">>, reg)
    ELSE IF value.kind = "ptr" /\ value.isNil
    THEN Gathered(FALSE, <<"value is nil">>, reg)
    ELSE LET val == IF value.kind = "ptr" THEN value.elem ELSE value
         IN IF val.kind # "struct"
            THEN Gathered(FALSE, <<"value must be a struct or pointer to struct">>, reg)
            ELSE tagAllFields(reg, val, 1, value.kind = "ptr")

\* the value ValidateAll returns for value
TagValidateAllResult(reg, value) ==
    LET errors == TagValidateAllCall(reg, value)
    IN IF errors.panic THEN [kind |-> "panic"]
       ELSE [kind |-> "errors", errors |-> errors.errors]

\* variant: the rule registered first under a name is kept
TagAddRuleKeepingFirst(reg, name, rule) == reg @@ (name :> rule)
\* Validator.AddRule(name, rule) of the tag-based Validator
TagAddRuleTo(reg, name, rule) == (name :> rule) @@ reg

\* AddRule(name, rule) for one of the registrations R
TagAddRuleOn(R) ==
    /\ impl = "tag"
    /\ nAdds < MaxRules
    /\ \E r \in R :
         /\ rules' = TagAddRuleTo(rules, r[1], r[2])
         /\ data' = [kind |-> "AddRule", field |-> r[1], rule |-> r[2]]
    /\ op' = "AddRule"
    /\ result' = Void
    /\ nAdds' = nAdds + 1
    /\ UNCHANGED impl

TagAddRule == TagAddRuleOn(RuleNames \X RuleSet)

\* Validator.Validate(value) of the tag-based Validator
TagValidateOn(S) ==
    /\ impl = "tag"
    /\ \E d \in S :
         /\ data' = d
         /\ result' = TagValidateResult(rules, ValueOf(d))
         /\ rules' = TagValidateCall(rules, ValueOf(d)).reg
    /\ op' = "Validate"
    /\ UNCHANGED <<impl, nAdds>>

TagValidate == TagValidateOn(TagInputs)

\* Validator.ValidateAll(value)
TagValidateAllOn(S) ==
    /\ impl = "tag"
    /\ \E d \in S :
         /\ data' = d
         /\ result' = TagValidateAllResult(rules, ValueOf(d))
         /\ rules' = TagValidateAllCall(rules, ValueOf(d)).reg
    /\ op' = "ValidateAll"
    /\ UNCHANGED <<impl, nAdds>>

TagValidateAll == TagValidateAllOn(TagInputs)

InitTag == Init /\ impl = "tag"
NextTag == TagAddRule \/ TagValidate \/ TagValidateAll
SpecTag == InitTag /\ [][NextTag]_vars

\* either implementation, on records whose fields the walk can read
NextBoth == AddRule \/ Validate \/ TagAddRule \/ TagValidate \/ TagValidateAll
SpecBoth == Init /\ [][NextBoth]_vars

\* either implementation, on every input
Next ==
    \/ AddRule \/ AddRuleUnexported
    \/ Validate \/ ValidateUnexported
    \/ TagAddRule \/ TagValidate \/ TagValidateAll
Spec == Init /\ [][Next]_vars

(***************************************************************************)
(* The tag-based Validator with conditional rules: the rule registered     *)
(* under the name `if` is an If, an Unless or a When on the field Premium, *)
(* held by pointer (as the tests register it) or by value.                 *)
(***************************************************************************)
ConditionalRuleSet ==
    {If("Premium", Required, NilRule, p) : p \in BOOLEAN}
      \cup {Unless("Premium", Required, NilRule, p) : p \in BOOLEAN}
      \cup {When("Premium", Required, NilRule, p) : p \in BOOLEAN}
      \cup {If("Premium", Range(18, 100), NilRule, TRUE)}
ConditionalRegistrations ==
    {<<"required", Required>>} \cup ({"if"} \X ConditionalRuleSet)
PremiumUsers ==
    {PremiumUser(p, "ab", premium, details) :
         p \in BOOLEAN, premium \in BOOLEAN,
         details \in {NoDetails} \cup {UserDetails(phone) : phone \in Names}}
      \cup {PremiumUser(TRUE, "", TRUE, NoDetails)}

ConditionalAddRule == TagAddRuleOn(ConditionalRegistrations)
ConditionalValidate == TagValidateOn(PremiumUsers)
ConditionalValidateAll == TagValidateAllOn(PremiumUsers)
NextConditional == ConditionalAddRule \/ ConditionalValidate \/ ConditionalValidateAll
SpecConditional == InitTag /\ [][NextConditional]_vars

(***************************************************************************)
(* The path-keyed Validator on records with a nested record held directly  *)
(* (BillingAddr) and through a pointer (ShippingAddr), as testdata.Order.  *)
(***************************************************************************)
NestedRegistrations ==
    ({"BillingAddr.Street", "ShippingAddr.Street", "ShippingAddr"} \X {Required})
      \cup {<<"BillingAddr", Range(18, 100)>>}
ShippedOrders ==
    {ShippedOrder(p, street, shipping) :
         p \in BOOLEAN, street \in Names,
         shipping \in {NoAddress} \cup {AddressAt(st) : st \in Names}}
NestedAddRule == AddRuleOn(NestedRegistrations)
NestedValidate == ValidateOn(ShippedOrders)
NextNested == NestedAddRule \/ NestedValidate
SpecNested == InitPath /\ [][NextNested]_vars

(***************************************************************************)
(* The path-keyed Validator with the When of package rules                 *)
(* (src/validator/rules/conditional.go) registered, by pointer or by       *)
(* value, under a top-level path and under nested paths.                   *)
(***************************************************************************)
WhenRuleSet ==
    {WhenValidationRule("Premium", Required, NilRule, p) : p \in BOOLEAN}
      \cup {WhenValidationRule("Premium", NilRule, Required, TRUE)}
WhenRegistrations ==
    ({"PremiumDetails"} \X WhenRuleSet)
      \cup {<<"BillingAddr.Street", WhenValidationRule("Premium", Required, NilRule, TRUE)>>,
            <<"Items[0].Quantity",
              WhenValidationRule("Premium", Range(18, 100), NilRule, TRUE)>>}
PremiumOrders ==
    {PremiumOrder(p, premium, details, street, items) :
         p \in BOOLEAN, premium \in BOOLEAN, details \in Names, street \in Names,
         items \in {<<>>, <<0>>}}
WhenAddRule == AddRuleOn(WhenRegistrations)
WhenValidateRecord == ValidateOn(PremiumOrders)
NextWhen == WhenAddRule \/ WhenValidateRecord
SpecWhen == InitPath /\ [][NextWhen]_vars

(***************************************************************************)
(* Two goroutines calling Validate on one shared tag-based Validator whose *)
(* registry holds &rules.If{Field: "Premium", Then: rules.Required{}}.     *)
(* Nothing synchronises them: the steps of a call that touch the shared    *)
(* rule, SetParent(parent) and rule.Validate(field) in validateField, are  *)
(* interleaved freely.  Here op, data and result are kept per goroutine.   *)
(***************************************************************************)
Goroutines == {1, 2}
SharedRegistry ==
    TagAddRuleTo(TagAddRuleTo(<<>>, "required", Required),
                 "if", If("Premium", Required, NilRule, TRUE))
\* the records the goroutines pass, each by pointer
SharedInputs ==
    {PremiumUser(TRUE, "ab", premium, details) :
         premium \in BOOLEAN, details \in {NoDetails, UserDetails("ab")}}
      \cup {PremiumUser(TRUE, "", TRUE, NoDetails)}
DetailsOf(d) == StructOf(d).fields[3]

InitShared ==
    /\ impl = "shared"
    /\ rules = SharedRegistry
    /\ op = [g \in Goroutines |-> "New"]
    /\ data = [g \in Goroutines |-> NoCall]
    /\ result = [g \in Goroutines |-> NoCall]
    /\ nAdds = 0

\* validateStruct up to the dispatch of the tag of Details: the fields
\* before Details, then the recursion into a non-nil Details; none of it
\* writes to a rule
beforeDispatch(reg, d) ==
    LET val == StructOf(d)
        before == tagStructFields(reg, [val EXCEPT !.fields = SubSeq(val.fields, 1, 2)],
                                  1, PtrTo(val), TRUE).err
        field == DetailsOf(d).value
        nested == IF field.isNil THEN NoError
                  ELSE Prefixed("Details", TagValidateStruct(reg, field, TRUE).err)
    IN IF ~before.isNil THEN before ELSE nested

\* go v.Validate(&d): the walk reaches validateField for Details, or
\* returns the error found before it
GoValidate(g) ==
    /\ impl = "shared"
    /\ op[g] \in {"New", "Validate"}
    /\ \E d \in SharedInputs :
         LET err == beforeDispatch(rules, d)
         IN /\ data' = [data EXCEPT ![g] = d]
            /\ op' = [op EXCEPT ![g] = IF err.isNil THEN "validateField" ELSE "Validate"]
            /\ result' = [result EXCEPT ![g] = IF err.isNil THEN NoCall ELSE Returned(err)]
    /\ UNCHANGED <<impl, rules, nAdds>>

\* setter.SetParent(parent) on the shared rule
GoSetParent(g) ==
    /\ impl = "shared"
    /\ op[g] = "validateField"
    /\ rules' = [rules EXCEPT !["if"] = Bind(@, PtrTo(StructOf(data[g])))]
    /\ op' = [op EXCEPT ![g] = "SetParent"]
    /\ UNCHANGED <<impl, data, result, nAdds>>

\* rule.Validate(field.Interface()) on the shared rule, and the return of
\* the call (Details is the last field)
GoRuleValidate(g) ==
    /\ impl = "shared"
    /\ op[g] = "SetParent"
    /\ LET field0 == DetailsOf(data[g]).value
           field == IF field0.isNil THEN field0 ELSE field0.elem
           err == RuleValidate(rules["if"], field)
       IN result' = [result EXCEPT ![g] = Returned(Prefixed("Details", err))]
    /\ op' = [op EXCEPT ![g] = "Validate"]
    /\ UNCHANGED <<impl, rules, data, nAdds>>

NextShared ==
    \E g \in Goroutines : GoValidate(g) \/ GoSetParent(g) \/ GoRuleValidate(g)
SpecShared == InitShared /\ [][NextShared]_vars

(***************************************************************************)
(* The rules used directly, as the tests of package rules use them: one    *)
(* rule variable (rules.rule), on which SetParent and Validate are called. *)
(***************************************************************************)
\* &testStruct{...} of the tests of package rules
testStruct(premium) ==
    StructV(<<Field("Age", TRUE, NoTag, IntV(20)),
              Field("Premium", TRUE, NoTag, BoolV(premium)),
              Field("Username", TRUE, NoTag, StrV("test"))>>)
\* contexts handed to SetParent: nil, records by pointer and by value, a
\* nil pointer, and a value that is not a record
Parents ==
    {NilIface, NilPtr, StrV("not a struct"), testStruct(TRUE)}
      \cup {PtrTo(testStruct(b)) : b \in BOOLEAN}
FieldNames == {"Premium", "Username", "NonExistent"}
Conditions == {"Premium", "NotNil"}
\* values handed to Validate
Values == {StrV(""), StrV("ab"), NilIface}
\* the rule variable is addressable, so SetParent can be called on it
FlatRules ==
    {If(f, t, e, TRUE) : f \in FieldNames, t \in {Required, NilRule}, e \in {Required, NilRule}}
      \cup {Unless(f, t, e, TRUE) :
              f \in FieldNames, t \in {Required, NilRule}, e \in {Required, NilRule}}
      \cup {When(c, t, e, TRUE) :
              c \in Conditions, t \in {Required, NilRule}, e \in {Required, NilRule}}
      \cup {WhenValidationRule(c, t, e, TRUE) :
              c \in Conditions, t \in {Required, NilRule}, e \in {Required, NilRule}}
\* rules whose Then and Else are rules with SetParent, held by pointer
\* (&rules.If{...}, &mockRule{}) or by value (rules.If{...})
NestedRules ==
    {If("Premium", If("Premium", t, NilRule, p), e, TRUE) :
         t \in {mockRule, Required}, p \in BOOLEAN, e \in {mockRule, NilRule}}
      \cup {When("NotNil", Unless("Premium", Required, mockRule, p), mockRule, TRUE) :
              p \in BOOLEAN}
TestedRules == FlatRules \cup NestedRules

InitRule ==
    /\ impl = "rule"
    /\ rules \in {[rule |-> r] : r \in TestedRules}
    /\ op = "New"
    /\ data = NoCall
    /\ result = NoCall
    /\ nAdds = 0

\* tt.rule.SetParent(parent)
SetParentCall ==
    /\ impl = "rule"
    /\ \E parent \in Parents :
         /\ rules' = [rule |-> SetParent(rules.rule, parent)]
         /\ data' = [kind |-> "SetParent", parent |-> parent]
    /\ op' = "SetParent"
    /\ result' = Void
    /\ UNCHANGED <<impl, nAdds>>

\* tt.rule.Validate(value)
ValidateCall ==
    /\ impl = "rule"
    /\ \E value \in Values :
         /\ data' = [kind |-> "Validate", value |-> value]
         /\ result' = Returned(RuleValidate(rules.rule, value))
    /\ op' = "Validate"
    /\ UNCHANGED <<impl, rules, nAdds>>

NextRule == SetParentCall \/ ValidateCall
SpecRule == InitRule /\ [][NextRule]_vars

(***************************************************************************)
(* C4: a record with no rule bound to any field anywhere in its shape is   *)
(* valid: Validate returns nil, whatever the registry holds.               *)
(***************************************************************************)
RECURSIVE Untagged(_)
Untagged(v) ==
    CASE v.kind = "struct" ->
           \A i \in DOMAIN v.fields :
             v.fields[i].tag = NoTag /\ Untagged(v.fields[i].value)
      [] v.kind = "slice" -> \A i \in DOMAIN v.items : Untagged(v.items[i])
      [] v.kind = "map" -> \A k \in DOMAIN v.at : Untagged(v.at[k])
      [] v.kind = "ptr" -> v.isNil \/ Untagged(v.elem)
      [] OTHER -> TRUE
IsRecord(d) ==
    d.kind \in {"Order", "Account", "TestUser", "TagOrder", "PremiumUser", "ShippedOrder",
               "PremiumOrder", "TaggedUser", "Profile"}
NoRuleBound ==
    IF impl = "path"
    THEN data.kind = "Order" /\ \A pos \in FieldPositions(data) : pos.path \notin DOMAIN rules
    ELSE IsRecord(data) /\ Untagged(StructOf(data))
C4_NoRulesIsValid ==
    (op = "Validate" /\ NoRuleBound) => result = [kind |-> "nil"]

\* rules are registered, but under identifiers no field of the record has;
\* the record's values are ones the rules would reject
C4_Witness ==
    /\ impl = "path" /\ op = "Validate" /\ NoRuleBound
    /\ DOMAIN rules = {"Items.Quantity"} /\ Len(rules["Items.Quantity"]) = 2
    /\ data.Name = "" /\ data.Items = <<0, 0>>
    /\ result = [kind |-> "nil"]

(***************************************************************************)
(* C8: a root that is nil, a nil pointer or not a record makes Validate    *)
(* return a configuration-level error, whatever the registry holds, and    *)
(* ValidateAll a sequence of exactly one error; a record passed directly   *)
(* or through a non-nil pointer is accepted and walked.                    *)
(***************************************************************************)
RootError(d) ==
    IF impl = "path"
    THEN [kind |-> "ValidationError", Field |-> "input",
          Message |-> "input must be a struct"]
    ELSE [kind |-> "error",
          msg |-> IF d.kind \in {"nil", "nilptr"} THEN "value is nil"
                  ELSE "value must be a struct or pointer to struct"]
RootErrors == {RootError(d) : d \in NonRecords}
\* the first field of every tagged record type carries the tag `required`
FirstField(d) == IF d.kind = "TagOrder" THEN "ID" ELSE "Name"
C8_RootMustBeRecord ==
    /\ (op = "Validate" /\ ~IsRecord(data)) => result = RootError(data)
    /\ (op = "ValidateAll" /\ ~IsRecord(data)) =>
         (result.kind = "errors" /\ Len(result.errors) = 1
            /\ result.errors[1] = RootError(data).msg)
    /\ (op = "Validate" /\ IsRecord(data)) =>
         /\ result \notin RootErrors
         /\ impl = "path" => (result.kind \in {"nil", "ValidationErrors"}
                                /\ (result.kind = "nil" <=> Rejections(data) = {}))
         /\ (impl = "tag" /\ ~Untagged(StructOf(data)) /\ "required" \notin DOMAIN rules) =>
              result = [kind |-> "error",
                        msg |-> FirstField(data) \o ": unknown validation rule: required"]

\* a nil pointer root, with rules registered: the configuration error
C8_Witness ==
    /\ impl = "path" /\ op = "Validate" /\ data = NilPointer
    /\ "Name" \in DOMAIN rules
    /\ result = [kind |-> "ValidationError", Field |-> "input",
                 Message |-> "input must be a struct"]

(***************************************************************************)
(* C9: for every input and every registry Validate and ValidateAll return  *)
(* a value; neither ever panics.                                           *)
(***************************************************************************)
C9_NeverPanics == result.kind # "panic"

(***************************************************************************)
(* C10: a tagged field whose tag names a rule that was never registered    *)
(* does not pass silently: Validate returns an error.  As claimed: for     *)
(* every record with such a field, and the error names the missing rule.   *)
(***************************************************************************)
\* the rule names the tags of the fields of v refer to (min and slice are
\* built into validateField; slice=<name> refers to <name>)
RefName(spec) ==
    LET parts == Split(spec, "=")
    IN IF Join(parts[1]) = "slice" /\ Len(parts) = 2 THEN {Join(parts[2])}
       ELSE IF Join(parts[1]) \in {"slice", "min"} THEN {}
       ELSE {Join(parts[1])}
TagRefs(tag) ==
    IF tag = NoTag THEN {}
    ELSE UNION {RefName(Split(tag, ",")[i]) : i \in DOMAIN Split(tag, ",")}
RECURSIVE Referenced(_, _)
\* exportedOnly: leave out the unexported fields
Referenced(v, exportedOnly) ==
    CASE v.kind = "struct" ->
           UNION {IF exportedOnly /\ ~v.fields[i].exported THEN {}
                  ELSE TagRefs(v.fields[i].tag)
                         \cup (IF v.fields[i].tag = NoTag /\ exportedOnly THEN {}
                               ELSE Referenced(v.fields[i].value, exportedOnly)) :
                    i \in DOMAIN v.fields}
      [] v.kind = "slice" -> UNION {Referenced(v.items[i], exportedOnly) : i \in DOMAIN v.items}
      [] v.kind = "ptr" -> IF v.isNil THEN {} ELSE Referenced(v.elem, exportedOnly)
      [] OTHER -> {}
ErrorPrefixes ==
    {"Name: ", "Age: ", "Nested: ", "Nested: Field: ", "ID: ", "Items: "}
      \cup {"Items: item at index " \o i \o ": ProductID: " : i \in {"0", "1", "2", "3"}}
NamesMissing(msg, missing) ==
    \E pre \in ErrorPrefixes, n \in missing : msg = pre \o "unknown validation rule: " \o n
ValidatedTagged == impl = "tag" /\ op = "Validate" /\ IsRecord(data)
Check(prefix, name, value) == [prefix |-> prefix, name |-> name, value |-> value]
ChecksOf(d) ==
    CASE d.kind = "TestUser" ->
           <<Check("Name: ", "required", StrV(d.Name)),
             Check("Age: ", "range", IntV(d.Age))>>
           \o (IF d.Nested.isNil THEN <<Check("Nested: ", "required", NilPtr)>>
               ELSE <<Check("Nested: Field: ", "required", StrV(d.Nested.Field)),
                      Check("Nested: ", "required", StructV(<<>>))>>)
      [] d.kind = "Account" -> <<Check("Name: ", "required", StrV(d.Name))>>
      [] OTHER -> <<>>
CheckFails(c) == c.name \notin DOMAIN rules \/ ~RuleValidate(rules[c.name], c.value).isNil
Reported(res) ==
    CASE res.kind = "error" -> {res.msg}
      [] res.kind = "errors" -> {res.errors[i] : i \in DOMAIN res.errors}
      [] res.kind = "ValidationErrors" ->
           {res.errors[i].Field \o ": " \o res.errors[i].Message : i \in DOMAIN res.errors}
      [] OTHER -> {}
C11_ConfigErrorKeepsWalking ==
    (/\ impl = "tag" /\ op \in {"Validate", "ValidateAll"} /\ result.kind # "panic"
     /\ data.kind = "TestUser"
     /\ "required" \notin DOMAIN rules /\ "range" \in DOMAIN rules)
      => LET err == RuleValidate(rules["range"], IntV(data.Age))
         IN ~err.isNil => ("Age: " \o err.msg) \in Reported(result)

(***************************************************************************)
(* C12: configuration errors and validation failures are disjoint classes  *)
(* of what the engine returns: a call that ends in a configuration error   *)
(* (non-record root, unregistered rule name) returns an error of another   *)
(* kind, or under a reserved field name, than a call that ends in a        *)
(* validation failure.                                                     *)
(***************************************************************************)
\* the first check of the walk that fails, 0 when none does
FirstFailing(d) ==
    IF \E i \in DOMAIN ChecksOf(d) : CheckFails(ChecksOf(d)[i])
    THEN CHOOSE i \in DOMAIN ChecksOf(d) :
           /\ CheckFails(ChecksOf(d)[i])
           /\ \A j \in 1..(i - 1) : ~CheckFails(ChecksOf(d)[j])
    ELSE 0
ConfigurationOutcome ==
    /\ impl = "tag" /\ op = "Validate"
    /\ \/ ~IsRecord(data)
       \/ /\ ValidatedTagged /\ FirstFailing(data) # 0
          /\ ChecksOf(data)[FirstFailing(data)].name \notin DOMAIN rules
FailureOutcome ==
    /\ ValidatedTagged /\ FirstFailing(data) # 0
    /\ ChecksOf(data)[FirstFailing(data)].name \in DOMAIN rules
\* what a caller can tell two returned errors apart by, short of reading
\* the message: the kind of the error and a reserved field name
Class(res) ==
    IF res.kind = "ValidationError" THEN <<res.kind, res.Field>> ELSE <<res.kind>>
C12_ConfigErrorsDistinct ==
    [][(ConfigurationOutcome /\ FailureOutcome') => Class(result) # Class(result')]_vars

(***************************************************************************)
(* C13: ValidateAll performs the traversal of Validate: for every record   *)
(* (here: passed by pointer, as the tests pass it) and registry it returns *)
(* a sequence, empty iff Validate returns nil, and the failure Validate    *)
(* reports has an entry in it.                                             *)
(***************************************************************************)
C13_ValidateAllSameTraversal ==
    (impl = "tag" /\ op \in {"Validate", "ValidateAll"} /\ IsRecord(data) /\ data.ptr) =>
      LET all == TagValidateAllResult(rules, ValueOf(data))
          one == TagValidateResult(rules, ValueOf(data))
      IN /\ all.kind = "errors"
         /\ all.errors = <<>> <=> one.kind = "nil"
         /\ one.kind = "error" => one.msg \in Reported(all)

(***************************************************************************)
(* C14: a predicate-gated rule (When, If, Unless) without Else, bound to a *)
(* context on which its predicate is false (for Unless: the named field is *)
(* true), returns no error for every value, whatever its Then rule would   *)
(* return for that value.                                                  *)
(***************************************************************************)
\* the context of r is a record, by value or by pointer, whose field name
\* is the boolean b
HasBool(r, name, b) ==
    /\ r.parent # NilIface
    /\ Deref(r.parent).kind = "struct"
    /\ \E i \in DOMAIN Deref(r.parent).fields :
         /\ Deref(r.parent).fields[i].name = name
         /\ Deref(r.parent).fields[i].value = BoolV(b)
PredicateFalse(r) ==
    CASE r.type = "If" -> HasBool(r, r.Field, FALSE)
      [] r.type = "Unless" -> HasBool(r, r.Field, TRUE)
      [] r.type \in {"When", "WhenValidationRule"} ->
           /\ r.parent # NilIface
           /\ IF r.Condition = "Premium"
              THEN ~(r.parent.kind = "ptr" /\ HasBool(r, "Premium", TRUE))
              ELSE FALSE
C14_FalsePredicateNoError ==
    (/\ impl = "rule" /\ op = "Validate"
     /\ rules.rule.Else = NilRule /\ PredicateFalse(rules.rule))
      => result = [kind |-> "nil"]

\* Unless on a field that is true, with a Then rule that rejects the value
C14_Witness ==
    /\ impl = "rule" /\ op = "Validate"
    /\ rules.rule.type = "Unless" /\ rules.rule.Then = Required
    /\ rules.rule.Else = NilRule /\ PredicateFalse(rules.rule)
    /\ data.value = StrV("")
    /\ result = [kind |-> "nil"]

(***************************************************************************)
(* C16: every predicate-gated rule fails with an error when Validate is    *)
(* called before a context is bound (parent nil), and If and Unless fail   *)
(* with an error when the bound context is not a record, has no field of   *)
(* the given name, or that field is not boolean.                           *)
(***************************************************************************)
C16_UnboundContextFails ==
    (impl = "rule" /\ op = "Validate" /\ rules.rule.type \in ConditionalTypes) =>
      /\ rules.rule.parent = NilIface => result.kind = "error"
      /\ (/\ rules.rule.type \in {"If", "Unless"}
          /\ \A b \in BOOLEAN : ~HasBool(rules.rule, rules.rule.Field, b))
           => result.kind = "error"

(***************************************************************************)
(* C17: context binding is transitive: after SetParent(P) the rule's       *)
(* context is P and every context-capable rule (When, If, Unless, mock     *)
(* rule) reachable through Then and Else, at any depth, has context P.     *)
(***************************************************************************)
RECURSIVE AllBound(_, _)
AllBound(r, parent) ==
    \/ r = NilRule
    \/ r.type \notin ConditionalTypes \cup {"mockRule"}
    \/ /\ r.parent = parent
       /\ r.type \in ConditionalTypes => (AllBound(r.Then, parent) /\ AllBound(r.Else, parent))
C17_BindingTransitive ==
    (impl = "rule" /\ op = "SetParent") => AllBound(rules.rule, data.parent)

(***************************************************************************)
(* C15: with &If{Field: "Premium", Then: Required} registered for the tag  *)
(* of Details, Validate of a record reports an error on Details iff the    *)
(* record's Premium field is true and Details is absent (nil).             *)
(***************************************************************************)
IfPremiumRegistered ==
    /\ impl = "tag"
    /\ DOMAIN rules = {"required", "if"}
    /\ rules["if"].type = "If" /\ rules["if"].ptr
C15_RequiredIffPremium ==
    (/\ IfPremiumRegistered /\ op = "Validate"
     /\ data.kind = "PremiumUser" /\ data.Username = "ab"
     /\ data.Details \in {NoDetails, UserDetails("ab")})
      => IF data.Premium /\ data.Details = NoDetails
         THEN result = [kind |-> "error", msg |-> "Details: value is required"]
         ELSE result = [kind |-> "nil"]

(***************************************************************************)
(* C20: a pointer field holding nil is dispatched to its rules with the    *)
(* enclosing record as context (a Required behind If on it fails when the  *)
(* record is premium, and only then) and is not recursed into; Validate    *)
(* and ValidateAll agree on it.                                            *)
(***************************************************************************)
C20_NilPointerDispatched ==
    (/\ IfPremiumRegistered /\ op \in {"Validate", "ValidateAll"}
     /\ data.kind = "PremiumUser" /\ data.Username = "ab"
     /\ data.Details = NoDetails)
      => /\ result.kind # "panic"
         /\ Reported(result) =
              IF data.Premium THEN {"Details: value is required"} ELSE {}
         /\ Reported(TagValidateResult(rules, ValueOf(data)))
              = Reported(TagValidateAllResult(rules, ValueOf(data)))

(***************************************************************************)
(* C19: a field holding a record, directly or through a non-nil pointer,   *)
(* is recursed into: a failing field of the nested record is reported      *)
(* under its path, before the failures of the rules of the field itself.   *)
(***************************************************************************)
\* the nested records of d by the path of their Street field
NestedStreets(d) ==
    [p \in {"BillingAddr.Street"}
             \cup (IF d.ShippingAddr.isNil THEN {} ELSE {"ShippingAddr.Street"}) |->
       IF p = "BillingAddr.Street" THEN d.Street ELSE d.ShippingAddr.Street]
Parent(p) == IF p = "BillingAddr.Street" THEN "BillingAddr" ELSE "ShippingAddr"
C19_NestedRecordsRecursed ==
    (impl = "path" /\ op = "Validate" /\ data.kind = "ShippedOrder") =>
      \A p \in DOMAIN NestedStreets(data) :
        Fails(p, StrV(NestedStreets(data)[p])) =>
          /\ result.kind = "ValidationErrors"
          /\ \E i \in DOMAIN Entries :
               /\ Entries[i].Field = p
               /\ \A j \in DOMAIN Entries : Entries[j].Field = Parent(p) => i < j

(***************************************************************************)
(* C18: two calls of Validate running concurrently on one shared Validator *)
(* whose registry holds a context-injecting rule each return exactly what  *)
(* the call returns when run alone on its own record.                      *)
(***************************************************************************)
C18_ConcurrentCallsIsolated ==
    impl = "shared" =>
      \A g \in Goroutines :
        (op[g] = "Validate" /\ data[g] # NoCall) =>
          result[g] = TagValidateResult(SharedRegistry, ValueOf(data[g]))

(***************************************************************************)
(* C21: recursion into a field that holds a record and the dispatch of the *)
(* field's own rules are both done, by Validate and by ValidateAll: when   *)
(* every nested field is valid and the field's own rule rejects the record *)
(* it holds, that failure is reported.                                     *)
(***************************************************************************)
C21_OwnRuleAfterRecursion ==
    (/\ impl = "tag" /\ op \in {"Validate", "ValidateAll"}
     /\ data.kind = "PremiumUser" /\ data.ptr /\ data.Username = "ab"
     /\ data.Details = UserDetails("ab")
     /\ DOMAIN rules = {"required", "if"} /\ rules["if"].ptr)
      => LET own == RuleValidate(Bind(rules["if"], ValueOf(data)),
                                 DetailsOf(data).value.elem)
         IN ~own.isNil => Reported(result) = {"Details: " \o own.msg}

(***************************************************************************)
(* C22: in the tag-based Validator AddRule(n, r) on a registered name n    *)
(* overrides the earlier rule: the registry then holds r under n and the   *)
(* rules of the other names as they were, nothing else changes it, and a   *)
(* later validation of a field tagged n applies the rule held under n and  *)
(* reports nothing of any other rule for that field.                       *)
(***************************************************************************)
TagAddRuleStep ==
    IF nAdds' # nAdds
    THEN /\ op' = "AddRule" /\ result' = Void
         /\ DOMAIN rules' = DOMAIN rules \cup {data'.field}
         /\ rules'[data'.field] = data'.rule
         /\ \A n \in DOMAIN rules \ {data'.field} : rules'[n] = rules[n]
    ELSE rules' = rules
\* what the rules clients register can say about Name
NameMessages(d) ==
    {"Name: " \o RuleValidate(r, StrV(d.Name)).msg :
       r \in {x \in RuleSet : ~RuleValidate(x, StrV(d.Name)).isNil}}
BranchRejects(w, submitted, value) ==
    IF Condition(w.Condition, submitted)
    THEN w.Then # NilRule /\ ~RuleValidate(w.Then, value).isNil
    ELSE w.Else # NilRule /\ ~RuleValidate(w.Else, value).isNil
C23_WhenAgainstSubmittedRecord ==
    (/\ impl = "path" /\ op = "Validate" /\ data.kind = "PremiumOrder"
     /\ "PremiumDetails" \in DOMAIN rules /\ Len(rules["PremiumDetails"]) = 1)
      => (EntriesOf("PremiumDetails") # <<>>
            <=> BranchRejects(rules["PremiumDetails"][1], ValueOf(data),
                              StrV(data.PremiumDetails)))

(***************************************************************************)
(* C28: in the path-keyed Validator the context bound to a rule with       *)
(* SetParent is the root value as it was passed to Validate, at every      *)
(* depth: a rule under BillingAddr.Street or Items[0].Quantity is bound to *)
(* the root and evaluated against it, not against the Address or the       *)
(* OrderItem that encloses the field.                                      *)
(***************************************************************************)
\* the nested fields of d by their path
NestedValues(d) ==
    [p \in {"BillingAddr.Street"}
             \cup (IF d.Items = <<>> THEN {} ELSE {"Items[0].Quantity"}) |->
       IF p = "BillingAddr.Street" THEN StrV(d.Street) ELSE IntV(d.Items[1])]
C28_ContextIsRoot ==
    (impl = "path" /\ op = "Validate" /\ data.kind = "PremiumOrder") =>
      \A p \in DOMAIN NestedValues(data) \cap DOMAIN rules :
        /\ \A i \in DOMAIN rules[p] : rules[p][i].ptr => rules[p][i].parent = ValueOf(data)
        /\ (Len(rules[p]) = 1 /\ rules[p][1].ptr)
             => (EntriesOf(p) # <<>>
                   <=> BranchRejects(rules[p][1], ValueOf(data), NestedValues(data)[p]))

\* &When{Condition: premium, Then: Required} under BillingAddr.Street sees
\* the Premium field of the root and rejects the empty Street
C28_Witness ==
    /\ impl = "path" /\ op = "Validate" /\ data.kind = "PremiumOrder"
    /\ data.ptr /\ data.Premium /\ data.Street = ""
    /\ DOMAIN rules = {"BillingAddr.Street"}
    /\ rules["BillingAddr.Street"]
         = <<SetParent(WhenValidationRule("Premium", Required, NilRule, TRUE),
                       ValueOf(data))>>
    /\ result = [kind |-> "ValidationErrors",
                 errors |-> <<ValidationError("BillingAddr.Street", "value is required")>>]

(***************************************************************************)
(* DependentRequired exercised as TestDependentRequired does: the Parent   *)
(* field is assigned, then Validate is called                              *)
(***************************************************************************)
\* Person of TestDependentRequired
Person(name, age, active) ==
    StructV(<<Field("Name", TRUE, NoTag, StrV(name)),
              Field("Age", TRUE, NoTag, IntV(age)),
              Field("Email", TRUE, NoTag, StrV("")),
              Field("Address", TRUE, NoTag, StrV("ab")),
              Field("Active", TRUE, NoTag, BoolV(active)),
              Field("Count", TRUE, NoTag, IntV(0))>>)
Persons == {Person(n, a, b) : n \in {"", "ab"}, a \in {0, 25}, b \in BOOLEAN}
\* records with a pointer field, nil or not
DetailedUsers ==
    {StructOf(PremiumUser(TRUE, "ab", FALSE, d)) : d \in {NoDetails, UserDetails("")}}
DependentParents ==
    {NilIface, NilPtr, StrV("not a struct")}
      \cup Persons \cup {PtrTo(r) : r \in Persons \cup DetailedUsers}
DependentFields == {"Name", "Age", "Active", "Details", "NonExistentField"}

InitDependent ==
    /\ impl = "rule"
    /\ rules \in {[rule |-> DependentRequired(f, NilIface)] : f \in DependentFields}
    /\ op = "New"
    /\ data = NoCall
    /\ result = NoCall
    /\ nAdds = 0

\* tt.rule.Parent = tt.parent
AssignParent ==
    /\ impl = "rule"
    /\ \E parent \in DependentParents :
         /\ rules' = [rule |-> [rules.rule EXCEPT !.Parent = parent]]
         /\ data' = [kind |-> "Parent", parent |-> parent]
    /\ op' = "Parent"
    /\ result' = Void
    /\ UNCHANGED <<impl, nAdds>>

\* tt.rule.Validate(value)
DependentValidate ==
    /\ impl = "rule"
    /\ \E value \in Values :
         /\ data' = [kind |-> "Validate", value |-> value]
         /\ result' = Returned(DependentRequiredValidate(rules.rule, value))
    /\ op' = "Validate"
    /\ UNCHANGED <<impl, rules, nAdds>>

NextDependent == AssignParent \/ DependentValidate
SpecDependent == InitDependent /\ [][NextDependent]_vars

(***************************************************************************)
(* C24: DependentRequired{Field: F}.Validate fails iff the sibling field F *)
(* of the bound record holds the zero value of its type (empty string, 0,  *)
(* false, nil), and passes when it is non-zero, whatever value is being    *)
(* validated; it fails when no record is bound, when the bound value is    *)
(* not a record, and when the record has no field F.                       *)
(***************************************************************************)
ZeroValues == {StrV(""), IntV(0), BoolV(FALSE), NilPtr}
\* the record behind the bound value, directly or through a pointer
BoundRecord(parent) ==
    IF parent.kind = "struct" THEN parent
    ELSE IF parent.kind = "ptr" /\ ~parent.isNil /\ parent.elem.kind = "struct"
    THEN parent.elem
    ELSE NilIface
HasField(rec, name) == \E i \in DOMAIN rec.fields : rec.fields[i].name = name
SiblingOf(rec, name) ==
    rec.fields[CHOOSE i \in DOMAIN rec.fields : rec.fields[i].name = name].value
C24_DependentRequiredIffZero ==
    (impl = "rule" /\ op = "Validate" /\ rules.rule.type = "DependentRequired")
      => LET F == rules.rule.Field
             rec == BoundRecord(rules.rule.Parent)
         IN IF rec = NilIface THEN result.kind = "error"
            ELSE IF ~HasField(rec, F) THEN result.kind = "error"
            ELSE IF SiblingOf(rec, F) \in ZeroValues
            THEN result = [kind |-> "error", msg |-> "field " \o F \o " is required"]
            ELSE result = [kind |-> "nil"]
\* Age is 0 in the bound record and a non-empty value is being validated
C24_Witness ==
    /\ impl = "rule" /\ op = "Validate"
    /\ rules.rule = DependentRequired("Age", PtrTo(Person("ab", 0, TRUE)))
    /\ data = [kind |-> "Validate", value |-> StrV("ab")]
    /\ result = [kind |-> "error", msg |-> "field Age is required"]

(***************************************************************************)
(* The tag-based Validator on records whose slice elements are handed to   *)
(* a conditional rule by validateSlice                                     *)
(***************************************************************************)
SliceRegistrations ==
    {"if"} \X ({If("Premium", Required, NilRule, p) : p \in BOOLEAN}
                 \cup {Unless("Premium", Required, NilRule, TRUE)})
TaggedUsers ==
    {TaggedUser(p, premium, tags, note) :
         p \in BOOLEAN, premium \in BOOLEAN,
         tags \in {<<>>, <<"">>, <<"ab">>}, note \in {"", "ab"}}

SliceAddRule == TagAddRuleOn(SliceRegistrations)
SliceValidate == TagValidateOn(TaggedUsers)
SliceValidateAll == TagValidateAllOn(TaggedUsers)
NextSlice == SliceAddRule \/ SliceValidate \/ SliceValidateAll
SpecSlice == InitTag /\ [][NextSlice]_vars

(***************************************************************************)
(* C25: every Validate the dispatcher makes on a context-capable rule is   *)
(* preceded, in the same dispatch, by SetParent with the enclosing record, *)
(* on every dispatch path, validateSlice's per-element application         *)
(* included: with &If{Field: "Premium", Then: Required} registered as `if` *)
(* and a record submitted by pointer, Validate passes iff the record is    *)
(* not premium or none of its Tags elements and its Note is empty.         *)
(***************************************************************************)
NoEmptyTag(d) == \A j \in DOMAIN d.Tags : d.Tags[j] # ""
C25_SetParentBeforeEveryValidate ==
    (/\ impl = "tag" /\ op = "Validate" /\ data.kind = "TaggedUser" /\ data.ptr
     /\ DOMAIN rules = {"if"}
     /\ [rules["if"] EXCEPT !.parent = NilIface] = If("Premium", Required, NilRule, TRUE))
      => (result.kind = "nil" <=> (data.Premium => NoEmptyTag(data) /\ data.Note # ""))

(***************************************************************************)
(* The tag-based Validator on records with a two-rule tag and with nested  *)
(* records, tagged and untagged                                            *)
(***************************************************************************)
Profiles ==
    {Profile(p, n, e, h, w, b) :
         p \in BOOLEAN, n \in Names, e \in Names, h \in Names,
         w \in {NoAddress, AddressAt("")}, b \in Names}

ProfileAddRule == TagAddRuleOn(RuleNames \X RuleSet)
ProfileValidate == TagValidateOn(Profiles)
ProfileValidateAll == TagValidateAllOn(Profiles)
NextProfile == ProfileAddRule \/ ProfileValidate \/ ProfileValidateAll
SpecProfile == InitTag /\ [][NextProfile]_vars

(***************************************************************************)
(* C26: the tag-based Validate returns exactly one failure: fields are     *)
(* checked in declaration order and, within a field, the nested record     *)
(* first and then the rules in tag order; the call returns at the first    *)
(* rejecting rule with the error `<FieldName>: <message>`, and failures of *)
(* later rules and later fields are not reported.                          *)
(***************************************************************************)
\* the checks a Profile is due, in the claimed order: the prefix of the
\* error, the name of the rule, the value it is applied to
ProfileChecks(d) ==
    <<<<"Name: ", "required", StrV(d.Name)>>,
      <<"Name: ", "range", StrV(d.Name)>>,
      <<"Email: ", "required", StrV(d.Email)>>,
      <<"Billing: Street: ", "required", StrV(d.BillingStreet)>>,
      <<"Billing: ", "range", TaggedAddress(d.BillingStreet)>>>>
\* the message of a check under the current registry, "" when it passes
CheckMessage(c) ==
    IF c[2] \notin DOMAIN rules THEN "unknown validation rule: " \o c[2]
    ELSE LET err == RuleValidate(rules[c[2]], c[3])
         IN IF err.isNil THEN "" ELSE err.msg
CheckRejects(c) == CheckMessage(c) # ""
FailingChecks(d) == SelectSeq(ProfileChecks(d), CheckRejects)
C26_FirstFailureOnly ==
    (impl = "tag" /\ op = "Validate" /\ data.kind = "Profile")
      => LET failing == FailingChecks(data)
         IN IF failing = <<>> THEN result = [kind |-> "nil"]
            ELSE result = [kind |-> "error",
                           msg |-> failing[1][1] \o CheckMessage(failing[1])]
\* Name, Email and Billing.Street are all invalid, by both rules of Name's
\* tag; only the first rule of the first field is reported
C26_Witness ==
    /\ impl = "tag" /\ op = "Validate"
    /\ DOMAIN rules = {"required", "range"}
    /\ rules["required"] = Required /\ rules["range"] = Range(18, 100)
    /\ data = Profile(FALSE, "", "", "ab", NoAddress, "")
    /\ Len(FailingChecks(data)) = 5
    /\ result = [kind |-> "error", msg |-> "Name: value is required"]

(***************************************************************************)
(* C29: in the tag-based Validator a field without a `validate` tag is     *)
(* skipped entirely: no rule is applied to it and, when it holds a record  *)
(* or a pointer to one, it is not recursed into, so that failures of       *)
(* tagged fields inside an untagged nested record are never reported by    *)
(* Validate or ValidateAll, whose results do not depend on them.           *)
(***************************************************************************)
\* the errors a walk into Home or Work would report
UntaggedFailures ==
    {pre \o "Street: " \o m :
         pre \in {"Home: ", "Work: "},
         m \in {"value is required", "value must be numeric",
                "unknown validation rule: required"}}
\* d with valid untagged records
Settled(d) == [d EXCEPT !.HomeStreet = "ab", !.Work = NoAddress]
C29_UntaggedFieldSkipped ==
    /\ (impl = "tag" /\ op = "Validate" /\ data.kind = "Profile")
         => /\ result = TagValidateResult(rules, ValueOf(Settled(data)))
            /\ result.kind = "error" => result.msg \notin UntaggedFailures
    /\ (impl = "tag" /\ op = "ValidateAll" /\ data.kind = "Profile")
         => /\ result = TagValidateAllResult(rules, ValueOf(Settled(data)))
            /\ result.kind = "errors"
                 => \A i \in DOMAIN result.errors : result.errors[i] \notin UntaggedFailures
\* Home.Street and Work.Street are empty and `required` is registered, yet
\* ValidateAll reports nothing
C29_Witness ==
    /\ impl = "tag" /\ op = "ValidateAll"
    /\ DOMAIN rules = {"required", "range"}
    /\ rules["required"] = Required /\ rules["range"] = Required
    /\ data = Profile(TRUE, "ab", "ab", "", AddressAt(""), "ab")
    /\ result = [kind |-> "errors", errors |-> <<>>]

(***************************************************************************)
(* C27: for every record r and registry, the tag-based Validate(r), r      *)
(* passed by value, and Validate(&r), r passed by pointer, return the same *)
(* outcome, also when a context-injecting rule (If, Unless, When) is bound *)
(* to one of r's fields: the enclosing record is the context in both.      *)
(***************************************************************************)
\* d passed the other way: by pointer when it was by value, and conversely
OtherWay(d) == [d EXCEPT !.ptr = ~d.ptr]
C27_ByValueAsByPointer ==
    (impl = "tag" /\ op = "Validate" /\ data.kind = "PremiumUser")
      => result = TagValidateResult(rules, ValueOf(OtherWay(data)))

(***************************************************************************)
(* Validate and ValidateAll one visit at a time.  While a call runs,       *)
(* result holds its activation: stack has one frame per validateStruct in  *)
(* progress (for ValidateAll the bottom frame is ValidateAll's own loop),  *)
(* i is the field the frame is at, j the next record of that field to      *)
(* enter; errors are those collected so far, visits the fields and         *)
(* elements visited so far.  The registry holds context-free rules and is  *)
(* not changed while a call runs.                                          *)
(***************************************************************************)
Frame(val, prefix, ro, addr) ==
    [val |-> val, i |-> 1, j |-> 1, prefix |-> prefix, ro |-> ro, addr |-> addr]
Walking(stack, ord) ==
    [kind |-> "walking", stack |-> stack, errors |-> <<>>, visits |-> 0, ord |-> ord]
\* how a call ends: "returned" to its caller, or "panicked"
Ended(kind, errors, visits) == [kind |-> kind, errors |-> errors, visits |-> visits]

\* the frame on top replaced by the frames fs
OnTop(res, fs) ==
    [res EXCEPT !.stack = SubSeq(@, 1, Len(@) - 1) \o fs, !.visits = @ + 1]
\* `i++` of a field loop
nextField(f) == [f EXCEPT !.i = @ + 1, !.j = 1]
\* the next record of the same field
nextNested(f) == [f EXCEPT !.j = @ + 1]
\* variant: the outermost validateStruct starts over instead of returning
walkReturnStartingOver(res) ==
    IF Len(res.stack) = 1
    THEN Walking(<<Frame(res.stack[1].val, "", FALSE, res.stack[1].addr)>>, res.ord)
    ELSE [res EXCEPT !.stack = SubSeq(@, 1, Len(@) - 1)]
\* `return errors` / `return nil` of the validateStruct on top
walkReturn(res) ==
    IF Len(res.stack) = 1 THEN Ended("returned", res.errors, res.visits)
    ELSE [res EXCEPT !.stack = SubSeq(@, 1, Len(@) - 1)]

\* the records the path-keyed validateStruct recurses into for one field,
\* each with its path
pathNested(fieldName, value, ord) ==
    IF value.kind = "struct" THEN <<[val |-> value, path |-> fieldName]>>
    ELSE IF value.kind = "slice" /\ value.elemKind = "struct"
    THEN [j \in DOMAIN value.items |->
            [val |-> value.items[j], path |-> fieldName \o "[" \o Itoa(j - 1) \o "]"]]
    ELSE IF value.kind = "map" /\ value.elemKind = "struct"
    THEN LET keys == MapKeys(value, ord)
         IN [k \in DOMAIN keys |->
               [val |-> value.at[keys[k]], path |-> fieldName \o "[" \o keys[k] \o "]"]]
    ELSE <<>>

\* one step of the path-keyed validateStruct on top of the stack: return
\* after the last field, enter the next nested record of the field, or
\* apply validateValue to the field and move on
pathWalk(res, reg, parent) ==
    LET f == res.stack[Len(res.stack)]
    IN IF f.i > Len(f.val.fields) THEN walkReturn(res)
       ELSE LET field == f.val.fields[f.i]
                fro == f.ro \/ ~field.exported
                fieldName == IF f.prefix # "" THEN f.prefix \o "." \o field.name
                             ELSE field.name
                nested == pathNested(fieldName, field.value, res.ord)
            IN IF f.j <= Len(nested)
               THEN OnTop(res, <<nextNested(f),
                                 Frame(nested[f.j].val, nested[f.j].path, fro, FALSE)>>)
               ELSE LET own == validateValue(reg, fieldName, field.value, parent, fro)
                    IN IF own.panic THEN Ended("panicked", <<>>, res.visits + 1)
                       ELSE [OnTop(res, <<nextField(f)>>) EXCEPT
                               !.errors = @ \o own.errors]

\* an error of the tag-based walk: Validate returns it at once; under
\* ValidateAll every validateStruct and validateSlice in progress returns
\* it to ValidateAll's loop, which appends it and goes on to its next field
walkFail(res, all, msg) ==
    IF ~all THEN Ended("returned", <<msg>>, res.visits + 1)
    ELSE [res EXCEPT !.stack = <<nextField(@[1])>>, !.errors = Append(@, msg),
                     !.visits = @ + 1]
\* the outcome of a dispatch that yielded err for the field called name
walkChecked(res, all, f, name, err) ==
    IF ~err.isNil THEN walkFail(res, all, f.prefix \o name \o ": " \o err.msg)
    ELSE OnTop(res, <<nextField(f)>>)
\* the item at j of validateSlice: a struct is entered, anything else is
\* handed to the rule
walkSliceItem(res, reg, all, f, name, item, ruleName) ==
    IF item.kind = "struct"
    THEN OnTop(res, <<nextNested(f),
                      Frame(item, f.prefix \o name \o ": item at index "
                                    \o Itoa(f.j - 1) \o ": ", FALSE, TRUE)>>)
    ELSE LET err == RuleValidate(reg[ruleName], item)
         IN IF ~err.isNil
            THEN walkFail(res, all, f.prefix \o name \o ": item at index "
                                      \o Itoa(f.j - 1) \o ": " \o err.msg)
            ELSE OnTop(res, <<nextNested(f)>>)
\* validateSlice(field, tag) from item j on; pre is what it returns before
\* its loop
walkSlice(res, reg, all, f, name, field, tag, pre) ==
    IF ~pre.isNil THEN walkFail(res, all, f.prefix \o name \o ": " \o pre.msg)
    ELSE IF f.j > Len(field.items) THEN OnTop(res, <<nextField(f)>>)
    ELSE walkSliceItem(res, reg, all, f, name, sliceItem(field, f.j - 1),
                       Join(Split(tag, "=")[2]))
\* the tag is the single rule `slice=<name>`
sliceTagged(tag) ==
    Len(Split(tag, ",")) = 1 /\ Join(Split(tag, "=")[1]) = "slice"

\* one step of the tag-based validateStruct on top of the stack; all: the
\* call is ValidateAll
tagWalk(res, reg, all) ==
    LET f == res.stack[Len(res.stack)]
    IN IF f.i > Len(f.val.fields) THEN walkReturn(res)
       ELSE LET fieldType == f.val.fields[f.i]
                field0 == fieldType.value
                field == IF field0.kind = "ptr" /\ ~field0.isNil THEN field0.elem
                         ELSE field0
                parent == IF f.addr THEN PtrTo(f.val) ELSE NilIface
            IN IF ~fieldType.exported \/ fieldType.tag = <<>>
               THEN OnTop(res, <<nextField(f)>>)
               ELSE IF field0.kind = "ptr" /\ field0.isNil
               THEN walkChecked(res, all, f, fieldType.name,
                                TagValidateField(reg, field0, fieldType.tag, parent).err)
               ELSE IF field.kind = "struct" /\ f.j = 1
               THEN OnTop(res, <<nextNested(f),
                                 Frame(field, f.prefix \o fieldType.name \o ": ", FALSE,
                                       f.addr \/ field0.kind = "ptr")>>)
               ELSE IF field.kind = "slice" /\ sliceTagged(fieldType.tag)
               THEN walkSlice(res, reg, all, f, fieldType.name, field, fieldType.tag,
                              TagValidateSlice(reg, [field EXCEPT !.items = <<>>],
                                               fieldType.tag).err)
               ELSE walkChecked(res, all, f, fieldType.name,
                                TagValidateField(reg, field, fieldType.tag, parent).err)

\* what ValidateAll's loop has after the rules of a nil pointer field
walkGathered(res, f, g) ==
    IF g.panic THEN Ended("panicked", <<>>, res.visits + 1)
    ELSE [OnTop(res, <<nextField(f)>>) EXCEPT !.errors = @ \o g.errors]
\* one step of ValidateAll's own loop, the only frame of the stack
tagAllWalk(res, reg) ==
    LET f == res.stack[1]
    IN IF f.i > Len(f.val.fields) THEN walkReturn(res)
       ELSE LET fieldType == f.val.fields[f.i]
                field0 == fieldType.value
                field == IF field0.kind = "ptr" /\ ~field0.isNil THEN field0.elem
                         ELSE field0
            IN IF ~fieldType.exported \/ fieldType.tag = <<>>
               THEN OnTop(res, <<nextField(f)>>)
               ELSE IF field0.kind = "ptr" /\ field0.isNil
               THEN walkGathered(res, f,
                                 tagNilPointerRules(reg, Split(fieldType.tag, ","), 1,
                                                    fieldType.name, f.val, f.addr))
               ELSE IF field.kind = "struct"
               THEN (IF f.j = 1
                     THEN OnTop(res, <<nextNested(f),
                                       Frame(field, fieldType.name \o ": ", FALSE,
                                             f.addr \/ field0.kind = "ptr")>>)
                     ELSE OnTop(res, <<nextField(f)>>))
               ELSE IF field.kind = "slice"
               THEN walkSlice(res, reg, TRUE, f, fieldType.name, field, fieldType.tag,
                              TagValidateSlice(reg, [field EXCEPT !.items = <<>>],
                                               fieldType.tag).err)
               ELSE IF ~f.addr THEN Ended("panicked", <<>>, res.visits + 1)
               ELSE walkChecked(res, TRUE, f, fieldType.name,
                                TagValidateField(reg, field, fieldType.tag,
                                                 PtrTo(f.val)).err)

\* the registries the walks run under
PathWalkRegistries ==
    {<< >>, AddRuleTo(<< >>, "Name", Required),
     AddRuleTo(AddRuleTo(<< >>, "Items[0].Quantity", Range(18, 100)), "secret", Required)}
TagWalkRegistries ==
    {<< >>, TagAddRuleTo(<< >>, "required", Required),
     TagAddRuleTo(TagAddRuleTo(<< >>, "required", Required), "range", Range(18, 100))}
PathWalkInputs == Orders \cup UnexportedInputs \cup NonRecords
TagWalkInputs ==
    TagOrders \cup TestUsers \cup NonRecords
      \cup {Profile(p, n, "ab", "", AddressAt(""), b) :
              p \in BOOLEAN, n \in Names, b \in Names}

InitWalk ==
    /\ \/ impl = "path" /\ rules \in PathWalkRegistries
       \/ impl = "tag" /\ rules \in TagWalkRegistries
    /\ op = "New"
    /\ data = NoCall
    /\ result = NoCall
    /\ nAdds = 0

\* Validator.Validate(data) of the path-keyed Validator, up to its call of
\* validateStruct
PathCall ==
    /\ impl = "path" /\ result.kind # "walking"
    /\ \E d \in PathWalkInputs :
         \E ord \in IterationOrders(d) :
           /\ data' = d
           /\ result' = IF Deref(ValueOf(d)).kind # "struct"
                        THEN Ended("returned",
                                   <<ValidationError("input", "input must be a struct")>>, 0)
                        ELSE Walking(<<Frame(Deref(ValueOf(d)), "", FALSE, FALSE)>>, ord)
    /\ op' = "Validate"
    /\ UNCHANGED <<impl, rules, nAdds>>

\* Validate(value) and ValidateAll(value) of the tag-based Validator, up to
\* the first field
TagCall ==
    /\ impl = "tag" /\ result.kind # "walking"
    /\ \E d \in TagWalkInputs :
         /\ data' = d
         /\ result' = IF Deref(ValueOf(d)).kind # "struct"
                      THEN Ended("returned", <<TagValidateResult(rules, ValueOf(d)).msg>>, 0)
                      ELSE Walking(<<Frame(Deref(ValueOf(d)), "", FALSE,
                                           ValueOf(d).kind = "ptr")>>, <<>>)
    /\ op' \in {"Validate", "ValidateAll"}
    /\ UNCHANGED <<impl, rules, nAdds>>

\* the running call of the path-keyed Validator takes its next step
PathVisit ==
    /\ impl = "path" /\ result.kind = "walking"
    /\ result' = pathWalk(result, rules, ValueOf(data))
    /\ UNCHANGED <<impl, rules, op, data, nAdds>>

\* the running call of the tag-based Validator takes its next step
TagVisit ==
    /\ impl = "tag" /\ result.kind = "walking"
    /\ result' = IF op = "ValidateAll" /\ Len(result.stack) = 1
                 THEN tagAllWalk(result, rules)
                 ELSE tagWalk(result, rules, op = "ValidateAll")
    /\ UNCHANGED <<impl, rules, op, data, nAdds>>

NextWalk == PathCall \/ TagCall \/ PathVisit \/ TagVisit
\* a call is a synchronous, single-threaded traversal: once started it
\* keeps taking steps
SpecWalk == InitWalk /\ [][NextWalk]_vars /\ WF_vars(PathVisit \/ TagVisit)

(***************************************************************************)
(* C30: Validate and ValidateAll terminate for every finite record whose   *)
(* pointer graph is acyclic and every finite registry whose rules          *)
(* terminate: the walk visits each field, sequence element and map entry a *)
(* bounded number of times (at most twice: once to enter the record it     *)
(* holds, once for its own rules) and then the call ends: it returns to    *)
(* its caller, or unwinds to it with a panic (C9).                         *)
(***************************************************************************)
RECURSIVE Positions(_)
RECURSIVE positionsFrom(_, _)
\* the fields, elements and entries of the values vs[i..], nested ones included
positionsFrom(vs, i) ==
    IF i > Len(vs) THEN 0 ELSE 1 + Positions(vs[i]) + positionsFrom(vs, i + 1)
Positions(v) ==
    CASE v.kind = "struct" -> positionsFrom([i \in DOMAIN v.fields |-> v.fields[i].value], 1)
      [] v.kind = "ptr" -> IF v.isNil THEN 0 ELSE Positions(v.elem)
      [] v.kind = "slice" -> positionsFrom(v.items, 1)
      [] v.kind = "map" ->
           LET keys == CHOOSE s \in KeySequences(DOMAIN v.at) : TRUE
           IN positionsFrom([k \in DOMAIN keys |-> v.at[keys[k]]], 1)
      [] OTHER -> 0
VisitsBounded ==
    result.kind \in {"walking", "returned", "panicked"}
      => result.visits <= 2 * Positions(ValueOf(data))
====
